---- MODULE Spec2Model ----
(***************************************************************************)
(* Model of the positional editing engine of src/server.py: the document   *)
(* is an ordered sequence of blocks (paragraphs made of runs, and tables);  *)
(* every tool call loads the document, resolves its anchors with            *)
(* find_paragraph_by_text, splices, and saves.                              *)
(*                                                                          *)
(* Texts are sequences of one-character strings.  A score is a pair         *)
(* <<num, den>> standing for the rational num/den; thresholds are given in  *)
(* tenths (5 stands for 0.5).  Positions in the block sequence are 1-based; *)
(* paragraph indices (doc.paragraphs[idx]) are 0-based as in the source.    *)
(***************************************************************************)
EXTENDS Integers, Sequences, FiniteSets, TLC

VARIABLES
    doc,      \* the persisted document of the active file: the sequence of body blocks
    call,     \* the last tool call: its name, arguments, result and the document it loaded
    steps,    \* number of tool calls made so far
    splitRec, \* the last successful split_paragraph, while no other call has come between
    path,     \* CURRENT_DOCX_PATH: the name of the active file
    others,   \* the other .docx files of the directory: name -> persisted document
    seen,     \* the listing the client got from its last get_paragraphs or search
    procs     \* the calls in progress of concurrent servers: what each has loaded

vars == <<doc, call, steps, splitRec, path, others, seen, procs>>

-----------------------------------------------------------------------------
(* Bounds of the model *)

MaxSteps == 1

-----------------------------------------------------------------------------
(* Program constants *)

\* the [:100] of the *_text previews in the results
PreviewLimit == 100

\* threshold: float = 0.5, in tenths
DefaultThreshold == 5

\* find_paragraph_by_text(doc, heading_text, 0.6), in tenths
HeadingThreshold == 6

\* the [:150] of merged_text
MergedPreviewLimit == 150

-----------------------------------------------------------------------------
(* Strings *)

Min(x, y) == IF x < y THEN x ELSE y

UpperToLower ==
    [A |-> "a", B |-> "b", C |-> "c", D |-> "d", E |-> "e", F |-> "f", G |-> "g",
     H |-> "h", I |-> "i", J |-> "j", K |-> "k", L |-> "l", M |-> "m", N |-> "n",
     O |-> "o", P |-> "p", Q |-> "q", R |-> "r", S |-> "s", T |-> "t", U |-> "u",
     V |-> "v", W |-> "w", X |-> "x", Y |-> "y", Z |-> "z"]

\* str.lower()
Lower(s) ==
    [i \in 1..Len(s) |-> IF s[i] \in DOMAIN UpperToLower THEN UpperToLower[s[i]] ELSE s[i]]

Whitespace == {" ", "\t", "\n"}

\* str.lstrip()
RECURSIVE LStrip(_)
LStrip(s) ==
    IF s # <<>> /\ Head(s) \in Whitespace THEN LStrip(Tail(s)) ELSE s

\* str.rstrip()
RECURSIVE RStrip(_)
RStrip(s) ==
    IF s # <<>> /\ s[Len(s)] \in Whitespace THEN RStrip(SubSeq(s, 1, Len(s) - 1)) ELSE s

\* str.strip()
Strip(s) == RStrip(LStrip(s))

\* s[i:i+len(sub)] == sub, i a 0-based offset
OccursAt(sub, s, i) ==
    /\ i + Len(sub) <= Len(s)
    /\ \A k \in 1..Len(sub) : s[i + k] = sub[k]

\* sub in s
Contains(sub, s) == \E i \in 0..Len(s) : OccursAt(sub, s, i)

\* the find that gives the last occurrence
RFind(s, sub) ==
    IF Contains(sub, s)
    THEN CHOOSE i \in 0..Len(s) :
            OccursAt(sub, s, i) /\ \A j \in (i + 1)..Len(s) : ~OccursAt(sub, s, j)
    ELSE -1

\* s.find(sub): the 0-based offset of the first occurrence, -1 when there is none
Find(s, sub) ==
    IF Contains(sub, s)
    THEN CHOOSE i \in 0..Len(s) :
            OccursAt(sub, s, i) /\ \A j \in 0..(i - 1) : ~OccursAt(sub, s, j)
    ELSE -1

Ellipsis == <<".", ".", ".">>

\* t[:limit] + "..." if len(t) > limit else t
PreviewTo(t, limit) ==
    IF Len(t) > limit THEN SubSeq(t, 1, limit) \o Ellipsis ELSE t

\* t[:100] + "..." if len(t) > 100 else t
Preview(t) == PreviewTo(t, PreviewLimit)

\* the bound i of a slice of a list of length n
SliceBound(i, n) ==
    IF i < 0 THEN (IF i + n < 0 THEN 0 ELSE i + n) ELSE IF i > n THEN n ELSE i

\* s[a:b]
PySlice(s, a, b) == SubSeq(s, SliceBound(a, Len(s)) + 1, SliceBound(b, Len(s)))

-----------------------------------------------------------------------------
(* difflib.SequenceMatcher(None, a, b).ratio(), as the rational 2*M / T *)

\* a[i:i+k] == b[j:j+k] (0-based offsets)
SameBlock(a, b, i, j, k) == \A t \in 1..k : a[i + t] = b[j + t]

\* b2j: the elements of b (each is mapped to the places it has in b)
B2J(b) == {b[j] : j \in 1..Len(b)}

\* a[i:i+k] occurs in b[blo:bhi]; an element that b2j does not hold starts no block
StartsBlock(a, b, b2j, i, blo, bhi, k) ==
    /\ k > 0 => a[i + 1] \in b2j
    /\ \E j \in blo..(bhi - k) : SameBlock(a, b, i, j, k)

\* a[alo:ahi] and b[blo:bhi] have a common block of size k
HasBlock(a, b, b2j, alo, ahi, blo, bhi, k) ==
    \E i \in alo..(ahi - k) : StartsBlock(a, b, b2j, i, blo, bhi, k)

\* the size of the longest common block of a[alo:ahi] and b[blo:bhi]
LongestSize(a, b, b2j, alo, ahi, blo, bhi) ==
    CHOOSE k \in 0..Min(ahi - alo, bhi - blo) :
        /\ HasBlock(a, b, b2j, alo, ahi, blo, bhi, k)
        /\ k = Min(ahi - alo, bhi - blo) \/ ~HasBlock(a, b, b2j, alo, ahi, blo, bhi, k + 1)

\* the earliest start in a of a common block of size k
EarliestInA(a, b, b2j, alo, ahi, blo, bhi, k) ==
    CHOOSE i \in alo..(ahi - k) :
        /\ StartsBlock(a, b, b2j, i, blo, bhi, k)
        /\ \A i2 \in alo..(i - 1) : ~StartsBlock(a, b, b2j, i2, blo, bhi, k)

\* the earliest start in b of the block a[i:i+k]
EarliestInB(a, b, i, blo, bhi, k) ==
    CHOOSE j \in blo..(bhi - k) :
        /\ SameBlock(a, b, i, j, k)
        /\ \A j2 \in blo..(j - 1) : ~SameBlock(a, b, i, j2, k)

\* the block of size k > 0 that starts at i in a
BlockFrom(a, b, i, blo, bhi, k) ==
    [i |-> i, j |-> EarliestInB(a, b, i, blo, bhi, k), k |-> k]

\* the block of size k: the earliest in a, then the earliest in b
BlockOfSize(a, b, b2j, alo, ahi, blo, bhi, k) ==
    IF k = 0 THEN [i |-> alo, j |-> blo, k |-> 0]
    ELSE BlockFrom(a, b, EarliestInA(a, b, b2j, alo, ahi, blo, bhi, k), blo, bhi, k)

\* find_longest_match(alo, ahi, blo, bhi)
FindLongestMatch(a, b, b2j, alo, ahi, blo, bhi) ==
    BlockOfSize(a, b, b2j, alo, ahi, blo, bhi, LongestSize(a, b, b2j, alo, ahi, blo, bhi))

RECURSIVE MatchCount(_, _, _, _, _, _, _)

\* get_matching_blocks: the block m, then the blocks to its left and to its right
MatchAround(a, b, b2j, alo, ahi, blo, bhi, m) ==
    IF m.k = 0 THEN 0
    ELSE m.k
         + (IF alo < m.i /\ blo < m.j
            THEN MatchCount(a, b, b2j, alo, m.i, blo, m.j) ELSE 0)
         + (IF m.i + m.k < ahi /\ m.j + m.k < bhi
            THEN MatchCount(a, b, b2j, m.i + m.k, ahi, m.j + m.k, bhi) ELSE 0)

\* get_matching_blocks: total size of the matching blocks of a[alo:ahi] and b[blo:bhi]
MatchCount(a, b, b2j, alo, ahi, blo, bhi) ==
    MatchAround(a, b, b2j, alo, ahi, blo, bhi,
                FindLongestMatch(a, b, b2j, alo, ahi, blo, bhi))

\* ratio(): 2.0 * matches / length, 1.0 when both are empty
Ratio(a, b) ==
    IF Len(a) + Len(b) = 0 THEN <<1, 1>>
    ELSE <<2 * MatchCount(a, b, B2J(b), 0, Len(a), 0, Len(b)), Len(a) + Len(b)>>

\* similarity(a, b)
similarity(a, b) == Ratio(Lower(a), Lower(b))

\* s1 > s2 for scores
ScoreGt(s1, s2) == s1[1] * s2[2] > s2[1] * s1[2]

\* score >= threshold, the threshold in tenths
ScoreGeThreshold(s, th) == 10 * s[1] >= th * s[2]

\* 0.9 + (0.1 * similarity(query, text))
ContainScore(s) == <<9 * s[2] + s[1], 10 * s[2]>>

-----------------------------------------------------------------------------
(* Blocks *)

Run(t) == [text |-> t, bold |-> FALSE]

\* a paragraph block with the given runs
Para(id, runs, style) ==
    [id |-> id, kind |-> "p", runs |-> runs, style |-> style, rows |-> <<>>]

\* a table block with the given grid of cell texts
Tbl(id, rows) ==
    [id |-> id, kind |-> "t", runs |-> <<>>, style |-> "", rows |-> rows]

RECURSIVE ConcatRuns(_)
ConcatRuns(runs) ==
    IF runs = <<>> THEN <<>> ELSE Head(runs).text \o ConcatRuns(Tail(runs))

\* paragraph.text: the concatenation of the run texts
ParaText(b) == ConcatRuns(b.runs)

\* doc.paragraphs: the positions of the body's paragraph blocks, in order
RECURSIVE ParaPositionsFrom(_, _)
ParaPositionsFrom(d, p) ==
    IF p > Len(d) THEN <<>>
    ELSE (IF d[p].kind = "p" THEN <<p>> ELSE <<>>) \o ParaPositionsFrom(d, p + 1)

Paragraphs(d) == ParaPositionsFrom(d, 1)

Ids(d) == {d[p].id : p \in 1..Len(d)}

\* the identity of an object created during a call
FreshId(d) == IF d = <<>> THEN 1 ELSE 1 + (CHOOSE m \in Ids(d) : \A i \in Ids(d) : i <= m)

\* doc.add_paragraph(text): appended to the body, one run when the text is not empty
NewParagraph(d, text) ==
    Para(FreshId(d), IF text = <<>> THEN <<>> ELSE <<Run(text)>>, "Normal")

\* the position of the block with identity id
PosOf(d, id) == CHOOSE p \in 1..Len(d) : d[p].id = id

\* doc.add_paragraph(...): the new paragraph becomes the last block of the body
add_paragraph(d, b) == Append(d, b)

\* a removal that leaves the element where it is
RemoveNothing(d, p) == d

\* element.getparent().remove(element)
RemoveAt(d, p) == SubSeq(d, 1, p - 1) \o SubSeq(d, p + 1, Len(d))

\* the sequence without the block with identity id, when it holds one
Detach(d, id) == IF id \in Ids(d) THEN RemoveAt(d, PosOf(d, id)) ELSE d

InsertAfterPos(d, p, b) == SubSeq(d, 1, p) \o <<b>> \o SubSeq(d, p + 1, Len(d))

InsertBeforePos(d, p, b) == SubSeq(d, 1, p - 1) \o <<b>> \o SubSeq(d, p, Len(d))

\* addnext that leaves b where add_paragraph put it
addnext_stays(d, anchor, b) == IF b.id \in Ids(d) THEN d ELSE Append(d, b)

\* anchor._element.addnext(b._element): b leaves the place it has and becomes the
\* next sibling of the anchor
addnext(d, anchor, b) ==
    LET d1 == Detach(d, b.id) IN InsertAfterPos(d1, PosOf(d1, anchor), b)

\* anchor._element.addprevious(b._element): b leaves the place it has and becomes
\* the previous sibling of the anchor
addprevious(d, anchor, b) ==
    LET d1 == Detach(d, b.id) IN InsertBeforePos(d1, PosOf(d1, anchor), b)

-----------------------------------------------------------------------------
(* find_paragraph_by_text *)

NoMatch == [found |-> FALSE, idx |-> -1, pos |-> 0, score |-> <<0, 1>>]

\* the comparison that lets an equal score replace the best one
BetterOrEqual(best, idx, pos, score) ==
    IF ~ScoreGt(best.score, score)
    THEN [found |-> TRUE, idx |-> idx, pos |-> pos, score |-> score]
    ELSE best

\* if score > best_score: best_match = (idx, para, score)
Better(best, idx, pos, score) ==
    IF ScoreGt(score, best.score)
    THEN [found |-> TRUE, idx |-> idx, pos |-> pos, score |-> score]
    ELSE best

\* the else branch: if score > best_score and score >= threshold
BetterFuzzy(best, idx, pos, score, th) ==
    IF ScoreGeThreshold(score, th) THEN Better(best, idx, pos, score) ELSE best

\* the loop body for the paragraph at pos with stripped text, best the best so far
ScoreParagraph(query, th, idx, pos, text, best) ==
    IF text = <<>> THEN best
    ELSE IF Contains(Lower(query), Lower(text))
    THEN Better(best, idx, pos, ContainScore(similarity(query, text)))
    ELSE BetterFuzzy(best, idx, pos, similarity(query, text), th)

FindStep(d, query, th, idx, pos, best) ==
    ScoreParagraph(query, th, idx, pos, Strip(ParaText(d[pos])), best)

RECURSIVE FindLoop(_, _, _, _, _, _)
FindLoop(d, paras, query, th, idx, best) ==
    IF idx >= Len(paras) THEN best
    ELSE FindLoop(d, paras, query, th, idx + 1,
                  FindStep(d, query, th, idx, paras[idx + 1], best))

find_paragraph_by_text(d, query, th) ==
    FindLoop(d, Paragraphs(d), query, th, 0, NoMatch)

-----
(* Results *)

Error(msg) == [status |-> "error", error |-> msg]

Failed(d, msg) == [doc |-> d, res |-> Error(msg)]

-----------------------------------------------------------------------------
(* Styles *)

\* the paragraph styles the loaded document defines
KnownStyles == {"Normal", "Heading 1", "Heading 2", "Heading X", "List Bullet"}

\* style.name.startswith('Heading')
IsHeadingStyle(name) == name \in {"Heading 1", "Heading 2", "Heading X"}

\* int(style.name.replace('Heading ', '')): ok is FALSE for the ValueError of a
\* suffix that is no integer
HeadingSuffix(name) ==
    CASE name = "Heading 1" -> [ok |-> TRUE, value |-> 1]
      [] name = "Heading 2" -> [ok |-> TRUE, value |-> 2]
      [] OTHER -> [ok |-> FALSE, value |-> 0]

\* an optional argument: None or a string
None == [given |-> FALSE, text |-> <<>>]

Some(t) == [given |-> TRUE, text |-> t]

\* the truth value of an optional string: None and "" are false
Truthy(o) == o.given /\ o.text # <<>>

\* paragraph.style = style for any name, defined by the document or not
SetAnyStyle(b, style) == [b EXCEPT !.style = style]

\* paragraph.style = style, the KeyError of an unknown style swallowed
SetStyle(b, style) ==
    IF style \in KnownStyles THEN [b EXCEPT !.style = style] ELSE b

\* apply_paragraph_formatting(paragraph, bold=bold, style=style); style "" is None
apply_paragraph_formatting(b, bold, style) ==
    LET b1 == IF bold
              THEN [b EXCEPT !.runs = [i \in 1..Len(b.runs) |-> [b.runs[i] EXCEPT !.bold = TRUE]]]
              ELSE b
    IN  IF style # "" THEN SetStyle(b1, style) ELSE b1

-----------------------------------------------------------------------------------------------------------------------------------------------------
(* Inserting tools *)

\* apply_paragraph_formatting on the block with identity id
FormatBlock(d, id, bold, style) ==
    [d EXCEPT ![PosOf(d, id)] = apply_paragraph_formatting(@, bold, style)]

\* the success result of insert_before_text and insert_after_text
Inserted(d, match) ==
    [status |-> "success", idx |-> match.idx, score |-> match.score,
     matched_text |-> Preview(ParaText(d[match.pos]))]

\* insert_before_text from the match on: add_paragraph, addprevious, formatting
InsertBeforeMatch(d, match, new_para, bold, style) ==
    IF ~match.found THEN Failed(d, "No paragraph found matching")
    ELSE [doc |-> FormatBlock(addprevious(add_paragraph(d, new_para), d[match.pos].id, new_para),
                              new_para.id, bold, style),
          res |-> Inserted(d, match)]

\* insert_before_text(query, text, threshold, bold, style)
insert_before_text(d, query, text, th, bold, style) ==
    InsertBeforeMatch(d, find_paragraph_by_text(d, query, th), NewParagraph(d, text),
                      bold, style)

\* insert_after_text from the match on: add_paragraph, addnext, formatting
InsertAfterMatch(d, match, new_para, bold, style) ==
    IF ~match.found THEN Failed(d, "No paragraph found matching")
    ELSE [doc |-> FormatBlock(addnext(add_paragraph(d, new_para), d[match.pos].id, new_para),
                              new_para.id, bold, style),
          res |-> Inserted(d, match)]

\* insert_after_text(query, text, threshold, bold, style)
insert_after_text(d, query, text, th, bold, style) ==
    InsertAfterMatch(d, find_paragraph_by_text(d, query, th), NewParagraph(d, text),
                     bold, style)

\* heading_level of a paragraph found by its style: the suffix, 1 on ValueError
FoundLevel(suffix) == IF suffix.ok THEN suffix.value ELSE 1

\* the first loop of insert_after_heading: the first paragraph from index idx on
\* that has a heading style and contains heading_text
RECURSIVE FindHeading(_, _, _, _)
FindHeading(d, paras, heading_text, idx) ==
    IF idx >= Len(paras) THEN [found |-> FALSE, idx |-> -1, level |-> 0]
    ELSE IF /\ IsHeadingStyle(d[paras[idx + 1]].style)
            /\ Contains(Lower(heading_text), Lower(ParaText(d[paras[idx + 1]])))
    THEN [found |-> TRUE, idx |-> idx,
          level |-> FoundLevel(HeadingSuffix(d[paras[idx + 1]].style))]
    ELSE FindHeading(d, paras, heading_text, idx + 1)

\* level <= heading_level for a paragraph with a heading style; the ValueError of a
\* suffix that is no integer is passed over
EndsSection(style, heading_level) ==
    /\ IsHeadingStyle(style)
    /\ HeadingSuffix(style).ok
    /\ HeadingSuffix(style).value <= heading_level

\* the second loop of insert_after_heading, from paragraph index idx on
RECURSIVE SectionEnd(_, _, _, _, _)
SectionEnd(d, paras, heading_level, idx, insert_idx) ==
    IF idx >= Len(paras) THEN insert_idx
    ELSE IF EndsSection(d[paras[idx + 1]].style, heading_level) THEN idx - 1
    ELSE SectionEnd(d, paras, heading_level, idx + 1, idx)

\* insert_idx: the end of the section of the heading; a level of 0 is the None of a
\* heading found by the fuzzy search
InsertIdx(d, heading_idx, heading_level) ==
    IF heading_level # 0
    THEN SectionEnd(d, Paragraphs(d), heading_level, heading_idx + 1, heading_idx)
    ELSE heading_idx

\* insert_after_heading from insert_idx on
InsertAtSectionEnd(d, heading_idx, heading_level, insert_idx, new_para) ==
    [doc |-> addnext(add_paragraph(d, new_para), d[Paragraphs(d)[insert_idx + 1]].id, new_para),
     res |-> [status |-> "success", insert_idx |-> insert_idx,
              heading_idx |-> heading_idx, heading_level |-> heading_level]]

\* insert_after_heading from the heading on
InsertAfterFound(d, heading_idx, heading_level, text) ==
    InsertAtSectionEnd(d, heading_idx, heading_level,
                       InsertIdx(d, heading_idx, heading_level), NewParagraph(d, text))

\* insert_after_heading when no paragraph with a heading style matched
InsertAfterFuzzy(d, match, text) ==
    IF ~match.found THEN Failed(d, "No heading found matching")
    ELSE InsertAfterFound(d, match.idx, 0, text)

\* insert_after_heading from the first loop on
InsertAfterHeadingMatch(d, h, heading_text, text) ==
    IF h.found THEN InsertAfterFound(d, h.idx, h.level, text)
    ELSE InsertAfterFuzzy(d, find_paragraph_by_text(d, heading_text, HeadingThreshold), text)

\* insert_after_heading(heading_text, text)
insert_after_heading(d, heading_text, text) ==
    InsertAfterHeadingMatch(d, FindHeading(d, Paragraphs(d), heading_text, 0),
                            heading_text, text)

-----------------------------------------------------------------------------
(* Paragraph management tools *)

\* delete_paragraph that takes the paragraph index for the place in the body
DeleteMatchByIndex(d, match) ==
    IF ~match.found THEN Failed(d, "No paragraph found matching")
    ELSE [doc |-> RemoveAt(d, match.idx + 1),
          res |-> [status |-> "success", idx |-> match.idx, score |-> match.score,
                   deleted_text |-> Preview(ParaText(d[match.pos]))]]

\* delete_paragraph from the match on
DeleteMatch(d, match) ==
    IF ~match.found THEN Failed(d, "No paragraph found matching")
    ELSE [doc |-> RemoveAt(d, match.pos),
          res |-> [status |-> "success", idx |-> match.idx, score |-> match.score,
                   deleted_text |-> Preview(ParaText(d[match.pos]))]]

\* delete_paragraph(query, threshold)
delete_paragraph(d, query, th) == DeleteMatch(d, find_paragraph_by_text(d, query, th))

BeforeWord == <<"b", "e", "f", "o", "r", "e">>

AfterWord == <<"a", "f", "t", "e", "r">>

\* position.lower() == "before"
IsBefore(position) == Lower(position) = BeforeWord

\* the splice that takes every position for "after"
SpliceAfterOnly(d, anchor, b, position) == addnext(d, anchor, b)

\* the splice of a block b that is in d: before or after the anchor per position
Splice(d, anchor, b, position) ==
    IF IsBefore(position) THEN addprevious(d, anchor, b) ELSE addnext(d, anchor, b)

\* move_paragraph from the two matches on
MoveMatches(d, source_match, target_match, position) ==
    IF ~source_match.found THEN Failed(d, "No paragraph found matching source")
    ELSE IF ~target_match.found THEN Failed(d, "No paragraph found matching target")
    ELSE IF source_match.idx = target_match.idx
    THEN Failed(d, "Source and target paragraphs are the same")
    ELSE [doc |-> Splice(RemoveAt(d, source_match.pos), d[target_match.pos].id,
                         d[source_match.pos], position),
          res |-> [status |-> "success",
                   moved_text |-> Preview(ParaText(d[source_match.pos])),
                   target_text |-> Preview(ParaText(d[target_match.pos]))]]

\* move_paragraph(query, target_query, position, threshold)
move_paragraph(d, query, target_query, position, th) ==
    MoveMatches(d, find_paragraph_by_text(d, query, th),
                find_paragraph_by_text(d, target_query, th), position)

\* the append that goes to runs[0]
AppendToFirstRun(b, tail) ==
    IF b.runs # <<>>
    THEN [b EXCEPT !.runs[1].text = @ \o tail]
    ELSE [b EXCEPT !.runs = <<Run(tail)>>]

\* para1.runs[-1].text += tail, or para1.add_run(tail) when there is no run
AppendToLastRun(b, tail) ==
    IF b.runs # <<>>
    THEN [b EXCEPT !.runs[Len(b.runs)].text = @ \o tail]
    ELSE [b EXCEPT !.runs = <<Run(tail)>>]

\* the merge that leaves the second paragraph in the body
MergedKeepsSecond(d, pos1, pos2, separator) ==
    [d EXCEPT ![pos1] = AppendToLastRun(@, separator \o ParaText(d[pos2]))]

\* the text of the second paragraph goes to the first, the second is removed
Merged(d, pos1, pos2, separator) ==
    RemoveAt([d EXCEPT ![pos1] = AppendToLastRun(@, separator \o ParaText(d[pos2]))], pos2)

\* merge_paragraphs from the two matches on
MergeMatches(d, match1, match2, separator) ==
    IF ~match1.found THEN Failed(d, "No paragraph found matching")
    ELSE IF ~match2.found THEN Failed(d, "No paragraph found matching")
    ELSE IF match1.idx = match2.idx THEN Failed(d, "Both queries match the same paragraph")
    ELSE [doc |-> Merged(d, match1.pos, match2.pos, separator),
          res |-> [status |-> "success", idx1 |-> match1.idx, idx2 |-> match2.idx,
                   merged_text |-> PreviewTo(ParaText(d[match1.pos]) \o separator
                                               \o ParaText(d[match2.pos]),
                                             MergedPreviewLimit)]]

\* merge_paragraphs(query1, query2, separator, threshold)
merge_paragraphs(d, query1, query2, separator, th) ==
    MergeMatches(d, find_paragraph_by_text(d, query1, th),
                 find_paragraph_by_text(d, query2, th), separator)

\* for run in para.runs: run.text = ""; then the first run, or a new run, takes text
SetWholeText(b, text) ==
    IF b.runs # <<>>
    THEN [b EXCEPT !.runs = [i \in 1..Len(b.runs) |->
                                [b.runs[i] EXCEPT !.text = IF i = 1 THEN text ELSE <<>>]]]
    ELSE [b EXCEPT !.runs = <<Run(text)>>]

\* split_paragraph from the two parts on: the original paragraph takes first_part,
\* the new one is added, takes the style and moves right after the original
SplitParts(d, match, first_part, second_part, new_para) ==
    IF second_part = <<>>
    THEN Failed(d, "Nothing to split - the split point is at the end of the paragraph.")
    ELSE [doc |-> addnext(add_paragraph([d EXCEPT ![match.pos] = SetWholeText(@, first_part)],
                                        new_para),
                          d[match.pos].id, new_para),
          res |-> [status |-> "success", idx |-> match.idx,
                   first_part |-> Preview(first_part),
                   second_part |-> Preview(second_part)]]

\* split_paragraph from the split point on
SplitAtPoint(d, match, full_text, split_point, second_part) ==
    SplitParts(d, match, SubSeq(full_text, 1, split_point), second_part,
               SetStyle(NewParagraph(d, second_part), d[match.pos].style))

\* split_paragraph from full_text.find(split_at) on
SplitAtIndex(d, match, full_text, split_at, split_index) ==
    IF split_index = -1 THEN Failed(d, "Split text not found in the paragraph.")
    ELSE SplitAtPoint(d, match, full_text, split_index + Len(split_at),
                      LStrip(SubSeq(full_text, split_index + Len(split_at) + 1,
                                    Len(full_text))))

\* split_paragraph from the match on
SplitMatch(d, match, split_at) ==
    IF ~match.found THEN Failed(d, "No paragraph found matching")
    ELSE SplitAtIndex(d, match, ParaText(d[match.pos]), split_at,
                      Find(ParaText(d[match.pos]), split_at))

\* split_paragraph(query, split_at, threshold)
split_paragraph(d, query, split_at, th) ==
    SplitMatch(d, find_paragraph_by_text(d, query, th), split_at)

\* the copy that takes the text of the source as one run
CopyAsOneRun(d, source_para) ==
    SetStyle(Para(FreshId(d), <<Run(ParaText(source_para))>>, "Normal"), source_para.style)

\* the copy of a paragraph: one add_run(run.text) per run with the run's bold, then
\* the style of the source
CopyOf(d, source_para) ==
    SetStyle(Para(FreshId(d), source_para.runs, "Normal"), source_para.style)

\* duplicate_paragraph from the target on
DuplicateAt(d, source_para, target_para, position, new_para) ==
    [doc |-> Splice(add_paragraph(d, new_para), target_para.id, new_para, position),
     res |-> [status |-> "success", position |-> position,
              duplicated_text |-> Preview(ParaText(source_para))]]

\* duplicate_paragraph with a target_query
DuplicateToTarget(d, source_match, target_match, position) ==
    IF ~target_match.found THEN Failed(d, "No paragraph found matching target")
    ELSE DuplicateAt(d, d[source_match.pos], d[target_match.pos], position,
                     CopyOf(d, d[source_match.pos]))

\* duplicate_paragraph from the source match on; without target_query the target is
\* the source and position = "after"
DuplicateMatch(d, source_match, target_query, position, th) ==
    IF ~source_match.found THEN Failed(d, "No paragraph found matching")
    ELSE IF Truthy(target_query)
    THEN DuplicateToTarget(d, source_match,
                           find_paragraph_by_text(d, target_query.text, th), position)
    ELSE DuplicateAt(d, d[source_match.pos], d[source_match.pos], AfterWord,
                     CopyOf(d, d[source_match.pos]))

\* duplicate_paragraph(query, target_query, position, threshold); target_query optional
duplicate_paragraph(d, query, target_query, position, th) ==
    DuplicateMatch(d, find_paragraph_by_text(d, query, th), target_query, position, th)

-----------------------------------------------------------------------------
(* List tools *)

\* list_type.lower() in ["number", "numbered", "ordered"]
ListStyleName(list_type) ==
    IF list_type \in {"number", "Number", "numbered", "ordered"}
    THEN "List Number" ELSE "List Bullet"

\* the first loop of create_list: one add_paragraph(item) per item, the style set
RECURSIVE CreateItems(_, _, _)
CreateItems(d, items, style_name) ==
    IF items = <<>> THEN d
    ELSE CreateItems(add_paragraph(d, SetStyle(NewParagraph(d, Head(items)), style_name)),
                     Tail(items), style_name)

\* the moves done in the order of the items
RECURSIVE MoveForward(_, _, _)
MoveForward(d, anchor, created) ==
    IF created = <<>> THEN d
    ELSE MoveForward(addnext(d, anchor, d[PosOf(d, created[1])]), anchor, Tail(created))

\* for para in reversed(created_paragraphs): insert_after_para._element.addnext(para)
RECURSIVE MoveReversed(_, _, _)
MoveReversed(d, anchor, created) ==
    IF created = <<>> THEN d
    ELSE MoveReversed(addnext(d, anchor, d[PosOf(d, created[Len(created)])]), anchor,
                      SubSeq(created, 1, Len(created) - 1))

\* created_paragraphs: the blocks of d1 that d does not have
Created(d, d1) == [i \in 1..(Len(d1) - Len(d)) |-> d1[Len(d) + i].id]

\* create_list with a query, from the match on
CreateAfterMatch(d, d1, match, items) ==
    IF ~match.found THEN Failed(d, "No paragraph found matching")
    ELSE [doc |-> MoveReversed(d1, d[match.pos].id, Created(d, d1)),
          res |-> [status |-> "success", items_count |-> Len(items)]]

\* create_list(items, list_type, query, threshold); query optional
create_list(d, items, list_type, query, th) ==
    IF items = <<>> THEN Failed(d, "No items provided for the list")
    ELSE IF Truthy(query)
    THEN CreateAfterMatch(d, CreateItems(d, items, ListStyleName(list_type)),
                          find_paragraph_by_text(d, query.text, th), items)
    ELSE [doc |-> CreateItems(d, items, ListStyleName(list_type)),
          res |-> [status |-> "success", items_count |-> Len(items)]]

-----------------------------------------------------------------------------
(* Placeholder tools *)

\* s.replace(old, new) from offset i on, old not empty: the occurrences from left to
\* right, none overlapping another
RECURSIVE ReplaceFrom(_, _, _, _)
ReplaceFrom(s, old, new, i) ==
    IF i + Len(old) > Len(s) THEN SubSeq(s, i + 1, Len(s))
    ELSE IF OccursAt(old, s, i) THEN new \o ReplaceFrom(s, old, new, i + Len(old))
    ELSE <<s[i + 1]>> \o ReplaceFrom(s, old, new, i + 1)

StrReplace(s, old, new) == ReplaceFrom(s, old, new, 0)

\* some run of the paragraph holds old_text
HasRunWith(runs, old_text) == \E i \in 1..Len(runs) : Contains(old_text, runs[i].text)

\* the first run that holds old_text
FirstRunWith(runs, old_text) ==
    CHOOSE i \in 1..Len(runs) :
        /\ Contains(old_text, runs[i].text)
        /\ \A j \in 1..(i - 1) : ~Contains(old_text, runs[j].text)

\* the replacement made in every run of the paragraph, not only in run i
ReplaceInEveryRun(b, old_text, new_text, i) ==
    [b EXCEPT !.runs = [j \in 1..Len(b.runs) |->
                           [b.runs[j] EXCEPT !.text = StrReplace(@, old_text, new_text)]]]

\* for run in paragraph.runs: if old_text in run.text: replace in it and return True
ReplaceInRun(b, old_text, new_text, i) ==
    [b EXCEPT !.runs[i].text = StrReplace(@, old_text, new_text)]

\* the paragraph rebuilt as one new run that holds the new text
RebuildAsOneRun(b, new_full_text) == [b EXCEPT !.runs = <<Run(new_full_text)>>]

\* the text is split across runs: every run cleared, the first takes the new text
RebuildRuns(b, new_full_text) ==
    IF b.runs # <<>>
    THEN [b EXCEPT !.runs = [i \in 1..Len(b.runs) |->
                                [b.runs[i] EXCEPT !.text = IF i = 1 THEN new_full_text
                                                              ELSE <<>>]]]
    ELSE [b EXCEPT !.runs = <<Run(new_full_text)>>]

\* replace_text_in_paragraph(paragraph, old_text, new_text): the paragraph after it;
\* it returns True exactly when old_text is in paragraph.text
replace_text_in_paragraph(b, old_text, new_text) ==
    IF ~Contains(old_text, ParaText(b)) THEN b
    ELSE IF HasRunWith(b.runs, old_text)
    THEN ReplaceInRun(b, old_text, new_text, FirstRunWith(b.runs, old_text))
    ELSE RebuildRuns(b, StrReplace(ParaText(b), old_text, new_text))

\* cell.text = cell.text.replace(placeholder, value) for the cells of a table
ReplaceInCells(b, placeholder, value) ==
    [b EXCEPT !.rows = [r \in 1..Len(b.rows) |->
                           [c \in 1..Len(b.rows[r]) |->
                               StrReplace(b.rows[r][c], placeholder, value)]]]

\* the two loops of replace_placeholder, as they leave one block
ReplaceInBlock(b, placeholder, value) ==
    IF b.kind = "p" THEN replace_text_in_paragraph(b, placeholder, value)
    ELSE ReplaceInCells(b, placeholder, value)

\* the cells of a table that hold the placeholder: count += 1 for each
CellsWith(b, placeholder) ==
    {rc \in {<<r, c>> : r \in 1..Len(b.rows), c \in 1..3} :
        rc[2] <= Len(b.rows[rc[1]]) /\ Contains(placeholder, b.rows[rc[1]][rc[2]])}

\* what one block adds to count
CountInBlock(b, placeholder) ==
    IF b.kind = "p"
    THEN IF Contains(placeholder, ParaText(b)) THEN 1 ELSE 0
    ELSE Cardinality(CellsWith(b, placeholder))

\* count after the two loops, from the block at p on
RECURSIVE CountFrom(_, _, _)
CountFrom(d, placeholder, p) ==
    IF p > Len(d) THEN 0
    ELSE CountInBlock(d[p], placeholder) + CountFrom(d, placeholder, p + 1)

\* the document after the two loops
ReplacedDoc(d, placeholder, value) ==
    [p \in 1..Len(d) |-> ReplaceInBlock(d[p], placeholder, value)]

\* replace_placeholder without the check of count == 0
ReplaceUnchecked(d, placeholder, value, count) ==
    [doc |-> ReplacedDoc(d, placeholder, value),
     res |-> [status |-> "success", replacements |-> count]]

\* replace_placeholder from count on
ReplaceCounted(d, placeholder, value, count) ==
    IF count = 0 THEN Failed(d, "Placeholder was not found in the document.")
    ELSE [doc |-> ReplacedDoc(d, placeholder, value),
          res |-> [status |-> "success", replacements |-> count]]

\* replace_placeholder(placeholder, value)
replace_placeholder(d, placeholder, value) ==
    ReplaceCounted(d, placeholder, value, CountFrom(d, placeholder, 1))

\* the loop that takes the entries from the last one to the first
RECURSIVE ReplaceEntriesBackwards(_, _, _, _)
ReplaceEntriesBackwards(d, replacements, n, details) ==
    IF n > Len(replacements)
    THEN [doc |-> d, res |-> [status |-> "success", details |-> details]]
    ELSE ReplaceEntriesBackwards(
             ReplacedDoc(d, replacements[Len(replacements) + 1 - n][1],
                         replacements[Len(replacements) + 1 - n][2]),
             replacements, n + 1,
             <<CountFrom(d, replacements[Len(replacements) + 1 - n][1], 1)>> \o details)

\* the loop of replace_placeholders over replacements.items(), from entry n on:
\* details holds results[placeholder] of the entries done, in mapping order
RECURSIVE ReplaceEntries(_, _, _, _)
ReplaceEntries(d, replacements, n, details) ==
    IF n > Len(replacements)
    THEN [doc |-> d, res |-> [status |-> "success", details |-> details]]
    ELSE ReplaceEntries(ReplacedDoc(d, replacements[n][1], replacements[n][2]),
                        replacements, n + 1,
                        Append(details, CountFrom(d, replacements[n][1], 1)))

\* replace_placeholders(replacements); the mapping as the sequence of its items
replace_placeholders(d, replacements) == ReplaceEntries(d, replacements, 1, <<>>)

-----------------------------------------------------------------------------
(* detect_table_format *)

\* s.split(sep) for a separator of one character, the part begun in acc
RECURSIVE SplitFrom(_, _, _, _)
SplitFrom(s, sep, i, acc) ==
    IF i > Len(s) THEN <<acc>>
    ELSE IF s[i] = sep THEN <<acc>> \o SplitFrom(s, sep, i + 1, <<>>)
    ELSE SplitFrom(s, sep, i + 1, Append(acc, s[i]))

Split(s, sep) == SplitFrom(s, sep, 1, <<>>)

\* [line.strip() for line in parts if line.strip()]
RECURSIVE StrippedLines(_)
StrippedLines(parts) ==
    IF parts = <<>> THEN <<>>
    ELSE IF Strip(Head(parts)) = <<>> THEN StrippedLines(Tail(parts))
    ELSE <<Strip(Head(parts))>> \o StrippedLines(Tail(parts))

\* lines = [line.strip() for line in text.strip().split('\n') if line.strip()]
Lines(text) == StrippedLines(Split(Strip(text), "\n"))

\* lines[0].startswith('|') and lines[0].endswith('|')
Piped(line) == line # <<>> /\ line[1] = "|" /\ line[Len(line)] = "|"

\* re.match(r'^\s*\|[\s\-:|]+\|\s*$', line) for a stripped line
LooksLikeSeparator(line) ==
    /\ Len(line) >= 3
    /\ Piped(line)
    /\ \A i \in 2..(Len(line) - 1) : line[i] \in Whitespace \cup {"-", ":", "|"}

\* len(line.replace('|', '').replace('-', '').replace(':', '').replace(' ', '')) == 0
NoContent(line) == \A i \in 1..Len(line) : line[i] \in {"|", "-", ":", " "}

\* [cell.strip() for cell in parts]
StripAll(parts) == [i \in 1..Len(parts) |-> Strip(parts[i])]

\* cells = [cell.strip() for cell in line.split('|')[1:-1]]
PipeCells(line) ==
    StripAll(SubSeq(Split(line, "|"), 2, Len(Split(line, "|")) - 1))

\* all(re.match(r'^[\s\-:]+$', cell) for cell in cells if cell)
AllDashes(cells) ==
    \A i \in 1..Len(cells) :
        cells[i] # <<>>
            => \A k \in 1..Len(cells[i]) : cells[i][k] \in Whitespace \cup {"-", ":"}

\* the row a line adds to table_data: none for a line the loop skips
MarkdownRow(line) ==
    IF LooksLikeSeparator(line) /\ NoContent(line) THEN <<>>
    ELSE IF AllDashes(PipeCells(line)) THEN <<>>
    ELSE IF PipeCells(line) # <<>> THEN <<PipeCells(line)>>
    ELSE <<>>

\* table_data after the loop over lines
RECURSIVE MarkdownRows(_)
MarkdownRows(lines) ==
    IF lines = <<>> THEN <<>>
    ELSE MarkdownRow(Head(lines)) \o MarkdownRows(Tail(lines))

\* tab_rows after the loop over lines
RECURSIVE TabRows(_)
TabRows(lines) ==
    IF lines = <<>> THEN <<>>
    ELSE IF \E i \in 1..Len(Head(lines)) : Head(lines)[i] = "\t"
    THEN <<StripAll(Split(Head(lines), "\t"))>> \o TabRows(Tail(lines))
    ELSE TabRows(Tail(lines))

\* max(col_counts) - min(col_counts) <= 1
SimilarColumnCounts(rows) ==
    \A i, j \in 1..Len(rows) : Len(rows[i]) - Len(rows[j]) <= 1

\* the value (None, [])
NotDetected == [format |-> "none", table_data |-> <<>>]

\* the tab-delimited path
DetectTab(tab_rows) ==
    IF Len(tab_rows) >= 2 /\ SimilarColumnCounts(tab_rows)
    THEN [format |-> "tab", table_data |-> tab_rows]
    ELSE NotDetected

\* the markdown path, taken when lines[0] is piped, then the tab path
DetectMarkdown(lines, table_data) ==
    IF Len(table_data) >= 1
    THEN [format |-> "markdown", table_data |-> table_data]
    ELSE DetectTab(TabRows(lines))

DetectLines(lines) ==
    IF lines = <<>> THEN NotDetected
    ELSE IF Piped(lines[1]) THEN DetectMarkdown(lines, MarkdownRows(lines))
    ELSE DetectTab(TabRows(lines))

\* detect_table_format(text)
detect_table_format(text) == DetectLines(Lines(text))

-----------------------------------------------------------------------------
(* Table tools *)

\* max(len(row) for row in table_data)
MaxCols(table_data) ==
    CHOOSE m \in {Len(table_data[r]) : r \in 1..Len(table_data)} :
        \A r \in 1..Len(table_data) : Len(table_data[r]) <= m

\* doc.add_table(rows, cols) with row.cells[j].text = cell_value for the cells the
\* data has; the other cells stay empty
TableGrid(table_data, cols) ==
    [r \in 1..Len(table_data) |->
        [c \in 1..cols |-> IF c <= Len(table_data[r]) THEN table_data[r][c] ELSE <<>>]]

\* not table_data or not table_data[0]: create_word_table returns None
NoTable(table_data) == table_data = <<>> \/ table_data[1] = <<>>

\* create_word_table(doc, table_data, has_header): the table, added at the end of
\* the body; the bold of the header row is no part of a block of the model
create_word_table(d, table_data) == Tbl(FreshId(d), TableGrid(table_data, MaxCols(table_data)))

\* doc.add_paragraph() with no text
AddSpace(d) == add_paragraph(d, NewParagraph(d, <<>>))

\* space_before after the anchor, the table after it
TableAfterSpace(d, anchor, table, space_before) ==
    addnext(addnext(add_paragraph(d, space_before), anchor, space_before),
            space_before.id, table)

\* space_after = doc.add_paragraph(); table._element.addnext(space_after._element)
SpaceAfterTable(d, table, space_after) ==
    addnext(add_paragraph(d, space_after), table.id, space_after)

\* the table d holds at its end goes after the anchor, between two empty paragraphs
TableAtAnchor(d, anchor, table) ==
    SpaceAfterTable(TableAfterSpace(d, anchor, table, NewParagraph(d, <<>>)), table,
                    NewParagraph(TableAfterSpace(d, anchor, table, NewParagraph(d, <<>>)),
                                 <<>>))

\* without an anchor the table stays at the end and two empty paragraphs follow it
TableAtEnd(d) == AddSpace(AddSpace(d))

\* the success result of insert_table
TableInserted(format, table_data) ==
    [status |-> "success", format_detected |-> format, rows |-> Len(table_data),
     columns |-> Len(table_data[1])]

\* insert_table that adds the table and saves before it looks for the anchor
PlaceTableSaved(d, detected, has_anchor, match) ==
    IF has_anchor /\ ~match.found
    THEN [doc |-> Append(d, create_word_table(d, detected.table_data)),
          res |-> Error("Could not find paragraph matching")]
    ELSE [doc |-> IF has_anchor
                  THEN TableAtAnchor(Append(d, create_word_table(d, detected.table_data)),
                                     d[match.pos].id,
                                     create_word_table(d, detected.table_data))
                  ELSE TableAtEnd(Append(d, create_word_table(d, detected.table_data))),
          res |-> TableInserted(detected.format, detected.table_data)]

\* insert_table from the anchor on: the errors return before anything is added
PlaceTable(d, detected, has_anchor, match) ==
    IF has_anchor /\ ~match.found THEN Failed(d, "Could not find paragraph matching")
    ELSE IF NoTable(detected.table_data) THEN Failed(d, "Failed to create table")
    ELSE [doc |-> IF has_anchor
                  THEN TableAtAnchor(Append(d, create_word_table(d, detected.table_data)),
                                     d[match.pos].id,
                                     create_word_table(d, detected.table_data))
                  ELSE TableAtEnd(Append(d, create_word_table(d, detected.table_data))),
          res |-> TableInserted(detected.format, detected.table_data)]

\* insert_table from the detected format on; the anchor is looked for with 0.5
InsertDetected(d, detected, query) ==
    IF detected.format = "none" THEN Failed(d, "Could not detect table format.")
    ELSE PlaceTable(d, detected, Truthy(query),
                    IF Truthy(query)
                    THEN find_paragraph_by_text(d, query.text, DefaultThreshold)
                    ELSE NoMatch)

\* insert_table(text, has_header, query)
insert_table(d, text, query) == InsertDetected(d, detect_table_format(text), query)

\* doc.tables: the positions of the body's table blocks, in order
Tables(d) == SelectSeq([p \in 1..Len(d) |-> p], LAMBDA p : d[p].kind = "t")

\* cell.text = text for the cell at (row, column) of the table at position p
SetCell(d, p, row, column, text) ==
    [d EXCEPT ![p].rows[row + 1][column + 1] = text]

\* len(table.columns): the grid of a table is as wide as its widest row
Columns(b) == MaxCols(b.rows)

\* an exception leaves the handler before save_document: no result, nothing saved
Raised(d, exception) == [doc |-> d, res |-> [status |-> "raised", exception |-> exception]]

\* the number of cells of the rows before row r (1-based)
RECURSIVE CellsBefore(_, _)
CellsBefore(b, r) == IF r <= 1 THEN 0 ELSE Len(b.rows[r - 1]) + CellsBefore(b, r - 1)

\* the row and column (1-based) of the i-th cell (0-based) of the table, row by row
CellOfFlat(b, i) ==
    CHOOSE rc \in {<<r, c>> : r \in 1..Len(b.rows), c \in 1..Columns(b)} :
        rc[2] <= Len(b.rows[rc[1]]) /\ CellsBefore(b, rc[1]) + rc[2] = i + 1

\* the cells python-docx gives for table.rows[row].cells, by the layout its version
\* uses: "rows" takes the cells of the row itself, "flat" slices the list of all
\* cells of the table by the column count; they differ on ragged tables only
RowCellPlaces(b, row, layout) ==
    IF layout = "rows"
    THEN [c \in 1..Len(b.rows[row + 1]) |-> <<row + 1, c>>]
    ELSE PySlice([i \in 1..CellsBefore(b, Len(b.rows) + 1) |-> CellOfFlat(b, i - 1)],
                 row * Columns(b), (row + 1) * Columns(b))

\* update_table_cell from the table on: the checks of row and column, then
\* table.rows[row].cells[column], an IndexError if the row has no such cell
UpdateCellOf(d, p, row, column, text, layout) ==
    IF row < 0 \/ row >= Len(d[p].rows) THEN Failed(d, "Row index out of range.")
    ELSE IF column < 0 \/ column >= Columns(d[p])
    THEN Failed(d, "Column index out of range.")
    ELSE IF column >= Len(RowCellPlaces(d[p], row, layout)) THEN Raised(d, "IndexError")
    ELSE [doc |-> SetCell(d, p, RowCellPlaces(d[p], row, layout)[column + 1][1] - 1,
                          RowCellPlaces(d[p], row, layout)[column + 1][2] - 1, text),
          res |-> [status |-> "success", new_value |-> text]]

\* update_table_cell(table_index, row, column, text)
update_table_cell(d, table_index, row, column, text, layout) ==
    IF table_index < 0 \/ table_index >= Len(Tables(d))
    THEN Failed(d, "Table index not found.")
    ELSE UpdateCellOf(d, Tables(d)[table_index + 1], row, column, text, layout)

\* delete_table(table_index): remaining_tables is len(doc.tables) - 1, taken after
\* the table has left the body
delete_table(d, table_index) ==
    IF table_index < 0 \/ table_index >= Len(Tables(d))
    THEN Failed(d, "Table index not found.")
    ELSE [doc |-> RemoveAt(d, Tables(d)[table_index + 1]),
          res |-> [status |-> "success",
                   remaining_tables |->
                       Len(Tables(RemoveAt(d, Tables(d)[table_index + 1]))) - 1]]

\* the table without its row (0-based)
WithoutRow(b, row) ==
    [b EXCEPT !.rows = SubSeq(b.rows, 1, row) \o SubSeq(b.rows, row + 2, Len(b.rows))]

\* delete_table_row from the table on: remaining_rows is len(table.rows) after the
\* row has left the table
DeleteRowOf(d, p, row) ==
    IF row < 0 \/ row >= Len(d[p].rows) THEN Failed(d, "Row index out of range.")
    ELSE [doc |-> [d EXCEPT ![p] = WithoutRow(d[p], row)],
          res |-> [status |-> "success", remaining_rows |-> Len(WithoutRow(d[p], row).rows)]]

\* delete_table_row(table_index, row)
delete_table_row(d, table_index, row) ==
    IF table_index < 0 \/ table_index >= Len(Tables(d))
    THEN Failed(d, "Table index not found.")
    ELSE DeleteRowOf(d, Tables(d)[table_index + 1], row)

-----------------------------------------------------------------------------
(* The files: CURRENT_DOCX_PATH names the active one; a file name stands for *)
(* its path, all files being in the directory that is searched               *)

DocxExt == <<".", "d", "o", "c", "x">>

\* the temporary files of an open document start with "~$"
TempPrefix == <<"~", "$">>

\* s.endswith(suffix)
EndsWith(s, suffix) ==
    Len(s) >= Len(suffix) /\ SubSeq(s, Len(s) - Len(suffix) + 1, Len(s)) = suffix

\* s.startswith(prefix)
StartsWith(s, prefix) == Len(s) >= Len(prefix) /\ SubSeq(s, 1, Len(prefix)) = prefix

\* if not filename.endswith('.docx'): filename += '.docx'
WithDocx(filename) == IF EndsWith(filename, DocxExt) THEN filename ELSE filename \o DocxExt

\* os.path.splitext(file)[0] of a file that ends with .docx
Stem(file) == SubSeq(file, 1, Len(file) - Len(DocxExt))

\* the file map o with the document d under the name f
Put(o, f, d) == [g \in DOMAIN o \cup {f} |-> IF g = f THEN d ELSE o[g]]

\* the file map o without the name f
Without(o, f) == [g \in DOMAIN o \ {f} |-> o[g]]

\* what the directory holds: the active file p with the document d, and the files of o
FilesOf(d, p, o) == Put(o, p, d)

\* max(score, 0.8)
AtLeastContained(score) == IF ScoreGt(<<8, 10>>, score) THEN <<8, 10>> ELSE score

\* the score find_document_by_name gives a file
NameScore(query, file) ==
    IF Contains(Lower(query), Lower(Stem(file)))
    THEN AtLeastContained(similarity(Lower(query), Lower(Stem(file))))
    ELSE similarity(Lower(query), Lower(Stem(file)))

\* the files find_document_by_name returns: .docx, no temporary file, score >= 0.3
NameCandidates(names, query) ==
    {f \in names : /\ EndsWith(f, DocxExt)
                   /\ ~StartsWith(f, TempPrefix)
                   /\ ScoreGeThreshold(NameScore(query, f), 3)}

\* find_document_by_name(query)[0]: the sort by score is stable and os.walk lists
\* the files in the order of the file system, so the first result is any candidate
\* that no candidate outscores
BestNames(names, query) ==
    {f \in NameCandidates(names, query) :
        \A g \in NameCandidates(names, query) :
            ~ScoreGt(NameScore(query, g), NameScore(query, f))}

\* a call that leaves the files and the pointer as they are
FilesKept(d, p, o, res) == [doc |-> d, path |-> p, others |-> o, res |-> res]

\* CURRENT_DOCX_PATH = file_path: the file is the active one from now on
Switched(d, p, o, file) ==
    [doc |-> FilesOf(d, p, o)[file], path |-> file,
     others |-> Without(FilesOf(d, p, o), file),
     res |-> [status |-> "success", current_document |-> file]]

\* switch_document(query): the results it can give
switch_document(d, p, o, query) ==
    IF BestNames(DOMAIN FilesOf(d, p, o), query) = {}
    THEN {FilesKept(d, p, o, Error("No .docx files found matching"))}
    ELSE {Switched(d, p, o, file) : file \in BestNames(DOMAIN FilesOf(d, p, o), query)}

\* save_document_as(filename): doc.save(filename) of the document get_document loads
save_document_as(d, p, o, filename) ==
    [doc |-> d, path |-> p,
     others |-> Without(Put(FilesOf(d, p, o), WithDocx(filename), d), p),
     res |-> [status |-> "success", saved |-> WithDocx(filename)]]

\* Document(), and doc.add_paragraph(title) with the style 'Title' if title
NewDocument(title) ==
    IF Truthy(title) THEN <<Para(1, <<Run(title.text)>>, "Title")>> ELSE <<>>

\* create_document that makes the new file the active one whatever switch_to is
CreatedAndSwitched(d, p, o, filename, new_doc, switch_to) ==
    [doc |-> new_doc, path |-> filename, others |-> FilesOf(d, p, o),
     res |-> [status |-> "success", switched_to |-> switch_to]]

\* create_document from doc.save(filename) on
CreatedFile(d, p, o, filename, new_doc, switch_to) ==
    IF switch_to
    THEN [doc |-> new_doc, path |-> filename, others |-> FilesOf(d, p, o),
          res |-> [status |-> "success", switched_to |-> switch_to]]
    ELSE [doc |-> d, path |-> p, others |-> Put(o, filename, new_doc),
          res |-> [status |-> "success", switched_to |-> switch_to]]

\* create_document from the file name with its extension on
CreateNamed(d, p, o, filename, title, switch_to) ==
    IF filename \in DOMAIN FilesOf(d, p, o)
    THEN FilesKept(d, p, o, Error("File already exists."))
    ELSE CreatedFile(d, p, o, filename, NewDocument(title), switch_to)

\* create_document(filename, title, switch_to)
create_document(d, p, o, filename, title, switch_to) ==
    CreateNamed(d, p, o, WithDocx(filename), title, switch_to)

-----------------------------------------------------------------------------
(* Paragraph ids: get_paragraphs, search, fetch, update_paragraph *)

SearchThreshold == 3

SearchLimit == 10

SearchPreviewLimit == 200

ParaPrefix == <<"p", "a", "r", "a", "-">>

DigitChars == <<"0", "1", "2", "3", "4", "5", "6", "7", "8", "9">>

\* str(n) of an integer n >= 0
RECURSIVE Decimal(_)
Decimal(n) ==
    IF n < 10 THEN <<DigitChars[n + 1]>>
    ELSE Decimal(n \div 10) \o <<DigitChars[(n % 10) + 1]>>

\* f"para-{idx}" that counts the listed paragraphs only
ParaIdAmongListed(d, idx) ==
    ParaPrefix \o Decimal(Cardinality({k \in 0..(idx - 1) :
                              Strip(ParaText(d[Paragraphs(d)[k + 1]])) # <<>>}))

\* f"para-{idx}": idx of enumerate(doc.paragraphs)
ParaId(d, idx) == ParaPrefix \o Decimal(idx)

IsDigit(c) == \E k \in 1..Len(DigitChars) : DigitChars[k] = c

DigitValue(c) == (CHOOSE k \in 1..Len(DigitChars) : DigitChars[k] = c) - 1

RECURSIVE DigitsValue(_, _)
DigitsValue(s, acc) ==
    IF s = <<>> THEN acc ELSE DigitsValue(Tail(s), 10 * acc + DigitValue(Head(s)))

\* int() of a text without sign: ValueError unless it is decimal digits
IntOfDigits(t, sign) ==
    IF t # <<>> /\ \A i \in 1..Len(t) : IsDigit(t[i])
    THEN [ok |-> TRUE, value |-> sign * DigitsValue(t, 0)]
    ELSE [ok |-> FALSE, value |-> 0]

\* int() of a text without surrounding whitespace: an optional sign, then the digits
IntOfSigned(t) ==
    IF t # <<>> /\ Head(t) \in {"-", "+"}
    THEN IntOfDigits(Tail(t), IF Head(t) = "-" THEN -1 ELSE 1)
    ELSE IntOfDigits(t, 1)

\* int(s) for texts of signs, digits, letters and whitespace
ParseInt(s) == IntOfSigned(Strip(s))

\* the paragraph doc.paragraphs[idx]
ParagraphAt(d, idx) == d[Paragraphs(d)[idx + 1]]

\* the entry of get_paragraphs for doc.paragraphs[idx]
ListEntry(d, idx) ==
    [id |-> ParaId(d, idx), text |-> Preview(Strip(ParaText(ParagraphAt(d, idx))))]

\* the entries of the paragraphs whose trimmed text is not empty, in document order
ListEntries(d) ==
    SelectSeq([k \in 1..Len(Paragraphs(d)) |-> ListEntry(d, k - 1)],
              LAMBDA e : e.text # <<>>)

\* get_paragraphs(limit, start_index)
get_paragraphs(d, limit, start_index) ==
    [total_paragraphs |-> Len(ListEntries(d)),
     start_index |-> start_index,
     showing |-> Len(PySlice(ListEntries(d), start_index, start_index + limit)),
     paragraphs |-> PySlice(ListEntries(d), start_index, start_index + limit)]

\* the score search gives a trimmed text
SearchScore(query, text) ==
    IF Contains(Lower(query), Lower(text)) THEN <<9, 10>> ELSE similarity(query, text)

\* round(score, 2) in hundredths: to the nearest, a half to the even one
Round2(score) ==
    IF 2 * ((100 * score[1]) % score[2]) > score[2]
       \/ (2 * ((100 * score[1]) % score[2]) = score[2]
           /\ ((100 * score[1]) \div score[2]) % 2 = 1)
    THEN ((100 * score[1]) \div score[2]) + 1
    ELSE (100 * score[1]) \div score[2]

\* the entry of search for doc.paragraphs[idx]
SearchEntry(d, query, idx) ==
    [id |-> ParaId(d, idx),
     score |-> Round2(SearchScore(query, Strip(ParaText(ParagraphAt(d, idx))))),
     text |-> PreviewTo(Strip(ParaText(ParagraphAt(d, idx))), SearchPreviewLimit),
     kept |-> /\ Strip(ParaText(ParagraphAt(d, idx))) # <<>>
              /\ ScoreGeThreshold(SearchScore(query, Strip(ParaText(ParagraphAt(d, idx)))),
                                  SearchThreshold)]

\* the entries search appends, in document order
SearchEntries(d, query) ==
    SelectSeq([k \in 1..Len(Paragraphs(d)) |-> SearchEntry(d, query, k - 1)],
              LAMBDA e : e.kept)

\* results.sort(key=score, reverse=True): stable, so e goes behind the entries whose
\* score is not smaller
RECURSIVE SortedByScore(_, _)
SortedByScore(entries, n) ==
    IF n = 0 THEN <<>>
    ELSE SelectSeq(SortedByScore(entries, n - 1), LAMBDA e : e.score >= entries[n].score)
         \o <<entries[n]>>
         \o SelectSeq(SortedByScore(entries, n - 1), LAMBDA e : e.score < entries[n].score)

\* the id, score and text of an entry
Shown3(e) == [id |-> e.id, score |-> e.score, text |-> e.text]

\* search(query): {"results": results[:10]}
search(d, query) ==
    [results |->
        PySlice([k \in 1..Len(SearchEntries(d, query)) |->
                    Shown3(SortedByScore(SearchEntries(d, query),
                                         Len(SearchEntries(d, query)))[k])],
                0, SearchLimit)]

\* {"error": f"Paragraph {id} not found"}
NotFound(id) == [status |-> "error", error |-> "Paragraph not found", id |-> id]

\* the index check that counts the paragraphs from 1
InBoundsFromOne(d, idx) == idx > 0 /\ idx < Len(Paragraphs(d))

\* not (idx < 0 or idx >= len(doc.paragraphs))
InBounds(d, idx) == idx >= 0 /\ idx < Len(Paragraphs(d))

\* fetch from the parsed index on
FetchIndex(d, id, n) ==
    IF ~n.ok THEN Error("Invalid ID format")
    ELSE IF ~InBounds(d, n.value) THEN NotFound(id)
    ELSE [id |-> id, index |-> n.value, text |-> ParaText(ParagraphAt(d, n.value)),
          style |-> ParagraphAt(d, n.value).style]

\* fetch(id)
fetch(d, id) ==
    IF ~StartsWith(id, ParaPrefix) THEN Error("Invalid ID format. Expected 'para-N'")
    ELSE FetchIndex(d, id, ParseInt(StrReplace(id, ParaPrefix, <<>>)))

\* update_paragraph from the paragraph on: the text, then the formatting
UpdateAt(d, pos, text, bold, style) ==
    [doc |-> [d EXCEPT ![pos] = apply_paragraph_formatting(SetWholeText(d[pos], text),
                                                           bold, style)],
     res |-> [status |-> "success"]]

\* update_paragraph from the parsed index on
UpdateIndex(d, id, n, text, bold, style) ==
    IF ~n.ok THEN Failed(d, "Invalid ID format")
    ELSE IF ~InBounds(d, n.value) THEN [doc |-> d, res |-> NotFound(id)]
    ELSE UpdateAt(d, Paragraphs(d)[n.value + 1], text, bold, style)

\* update_paragraph(id, text, bold, style)
update_paragraph(d, id, text, bold, style) ==
    IF ~StartsWith(id, ParaPrefix) THEN Failed(d, "Invalid ID format. Expected 'para-N'")
    ELSE UpdateIndex(d, id, ParseInt(StrReplace(id, ParaPrefix, <<>>)), text, bold, style)

-----------------------------------------------------------------------------
(* get_document_outline *)

\* level of a paragraph with a heading style: the suffix, 0 on ValueError
OutlineLevel(suffix) == IF suffix.ok THEN suffix.value ELSE 0

\* the paragraph doc.paragraphs[idx] is in the outline: a heading style, or 'Title'
InOutline(d, idx) ==
    IsHeadingStyle(ParagraphAt(d, idx).style) \/ ParagraphAt(d, idx).style = "Title"

\* the entry of the outline for doc.paragraphs[idx]
OutlineEntry(d, idx) ==
    [id |-> ParaId(d, idx),
     level |-> IF IsHeadingStyle(ParagraphAt(d, idx).style)
               THEN OutlineLevel(HeadingSuffix(ParagraphAt(d, idx).style))
               ELSE 0,
     text |-> Preview(ParaText(ParagraphAt(d, idx))),
     style |-> ParagraphAt(d, idx).style,
     listed |-> InOutline(d, idx)]

\* the id, level, text and style of an entry
Shown4(e) == [id |-> e.id, level |-> e.level, text |-> e.text, style |-> e.style]

\* the entries of the outline, in document order
Outline(d) ==
    SelectSeq([k \in 1..Len(Paragraphs(d)) |-> OutlineEntry(d, k - 1)],
              LAMBDA e : e.listed)

\* get_document_outline()
get_document_outline(d) ==
    [total_headings |-> Len(Outline(d)),
     outline |-> [k \in 1..Len(Outline(d)) |-> Shown4(Outline(d)[k])]]

-----------------------------------------------------------------------------
(* add_paragraph, format_paragraph, add_list_item *)

\* the add_paragraph tool: doc.add_paragraph(text), apply_paragraph_formatting, save
add_paragraph_tool(d, text, bold, style) ==
    [doc |-> FormatBlock(add_paragraph(d, NewParagraph(d, text)), FreshId(d), bold, style),
     res |-> [status |-> "success"]]

\* run.bold = bold for every run when bold is not None; bold is "None", "True" or "False"
SetRunsBold(b, bold) ==
    IF bold = "None" THEN b
    ELSE [b EXCEPT !.runs = [i \in 1..Len(b.runs) |->
                                [b.runs[i] EXCEPT !.bold = (bold = "True")]]]

\* format_paragraph on the paragraph found: the runs, then the style in try/except
FormatFound(d, p, bold, style) ==
    [doc |-> [d EXCEPT ![p] = IF style # "" THEN SetStyle(SetRunsBold(@, bold), style)
                              ELSE SetRunsBold(@, bold)],
     res |-> [status |-> "success", matched_text |-> Preview(ParaText(d[p]))]]

FormatMatch(d, match, bold, style) ==
    IF ~match.found THEN Failed(d, "No paragraph found matching")
    ELSE FormatFound(d, match.pos, bold, style)

\* format_paragraph(query, bold, style, threshold); style "" is None
format_paragraph(d, query, bold, style, th) ==
    FormatMatch(d, find_paragraph_by_text(d, query, th), bold, style)

\* add_list_item from the match on: add_paragraph, the style in try/except, addnext
AddItemMatch(d, match, new_para, style_name) ==
    IF ~match.found THEN Failed(d, "No paragraph found matching")
    ELSE [doc |-> addnext(add_paragraph(d, SetStyle(new_para, style_name)),
                          d[match.pos].id, SetStyle(new_para, style_name)),
          res |-> [status |-> "success", new_item |-> ParaText(new_para)]]

\* add_list_item(query, text, list_type, threshold)
add_list_item(d, query, text, list_type, th) ==
    AddItemMatch(d, find_paragraph_by_text(d, query, th), NewParagraph(d, text),
                 ListStyleName(list_type))

-----
(* Documents and inputs *)

Intro == <<"I", "n", "t", "r", "o">>

Body == <<"B", "o", "d", "y">>

Conclusion == <<"C", "o", "n", "c", "l", "u", "s", "i", "o", "n">>

\* "A. B."
Sentences == <<"A", ".", " ", "B", ".">>

\* "Conclude"
Conclude == <<"C", "o", "n", "c", "l", "u", "d", "e">>

\* [Intro, "A. B.", table, Conclusion], the first and the last a "Heading 1"
DocSection ==
    <<Para(1, <<Run(Intro)>>, "Heading 1"),
      Para(2, <<Run(Sentences)>>, "Normal"),
      Tbl(3, <<<<Body, Body>>>>),
      Para(4, <<Run(Conclusion)>>, "Heading 1")>>

\* [Intro, "A.  B. " in two runs, Conclusion]
DocRuns ==
    <<Para(1, <<Run(Intro)>>, "Normal"),
      Para(2, <<[text |-> <<"A", ".">>, bold |-> TRUE], Run(<<" ", " ", "B", ".", " ">>)>>, "Normal"),
      Para(3, <<Run(Conclusion)>>, "Normal")>>

\* tables first and last, a "Heading 2" and a heading whose suffix is no integer
DocTables ==
    <<Tbl(1, <<<<Intro>>>>),
      Para(2, <<Run(Intro)>>, "Heading 2"),
      Para(3, <<Run(Body)>>, "Normal"),
      Para(4, <<Run(Conclude)>>, "Heading X"),
      Tbl(5, <<<<Body>>, <<Body>>>>)>>

\* an empty paragraph first, a blank one and a table in the section of a heading
DocBlank ==
    <<Para(1, <<>>, "Normal"),
      Para(2, <<Run(Intro)>>, "Heading 1"),
      Para(3, <<Run(<<" ">>)>>, "Normal"),
      Para(4, <<Run(Sentences)>>, "Normal"),
      Tbl(5, <<<<Body>>>>)>>

\* [Intro (Heading 1), Body, "A. B." (Heading 2), Conclusion (Heading 1)]
DocOutline ==
    <<Para(1, <<Run(Intro)>>, "Heading 1"),
      Para(2, <<Run(Body)>>, "Normal"),
      Para(3, <<Run(Sentences)>>, "Heading 2"),
      Para(4, <<Run(Conclusion)>>, "Heading 1")>>

InitDocs == {DocSection, DocRuns, DocTables, DocBlank, DocOutline}

\* "A." and then x up to one character more than the previews of the results hold
LongText == [i \in 1..(PreviewLimit + 1) |-> IF i = 1 THEN "A" ELSE IF i = 2 THEN "." ELSE "x"]

\* a long paragraph among short ones
DocLong ==
    <<Para(1, <<Run(Intro)>>, "Normal"),
      Para(2, <<Run(LongText)>>, "Normal"),
      Para(3, <<Run(Conclusion)>>, "Normal")>>

\* a long paragraph in two runs, after a table
DocLongRuns ==
    <<Para(1, <<Run(Conclusion)>>, "Heading 1"),
      Tbl(2, <<<<Body>>>>),
      Para(3, <<Run(Sentences), Run(LongText)>>, "Normal")>>

LongDocs == {DocLong, DocLongRuns}

Queries == {Intro, Conclusion, <<"A", ".">>, <<"z", "z">>}

Thresholds == {DefaultThreshold}

NewTexts == {Body}

\* the bold and style arguments of the inserting tools; "" is style=None
FormatArgs ==
    {[bold |-> FALSE, style |-> ""],
     [bold |-> TRUE, style |-> "Heading 2"],
     [bold |-> FALSE, style |-> "Fancy"]}

Positions == {BeforeWord, AfterWord}

Separators == {<<>>, <<" ">>}

SplitAts == {<<".">>, <<"B", ".">>}

OptQueries == {None, Some(<<>>), Some(Intro), Some(<<"z", "z">>)}

ItemLists == {<<>>, <<Body>>, <<Intro, Body>>}

ListTypes == {"bullet", "Number"}

NoSplit == [valid |-> FALSE]

NoCall == [op |-> "none"]

-----------------------------------------------------------------------------------------------------------------------------------------------------
(* The tool calls: each loads the document, runs the tool and saves *)

\* DEFAULT_DOCX_PATH: "MCP.docx"
DefaultPath == <<"M", "C", "P">> \o DocxExt

\* "notes.docx"
NotesFile == <<"n", "o", "t", "e", "s">> \o DocxExt

\* "~$notes.docx"
NotesTemp == TempPrefix \o NotesFile

DocNotes == <<Para(1, <<Run(Body)>>, "Normal")>>

\* CURRENT_DOCX_PATH = DEFAULT_DOCX_PATH; the directory holds a second document and
\* the temporary file of an editor that has it open
FilesAtStart ==
    /\ path = DefaultPath
    /\ others = [f \in {NotesFile, NotesTemp} |-> IF f = NotesFile THEN DocNotes ELSE <<>>]

\* the client has listed nothing
NoListing == <<>>

\* no call is in progress
NoProcs == <<>>

ClientAtStart ==
    /\ seen = NoListing
    /\ procs = NoProcs

Init ==
    /\ doc \in InitDocs
    /\ call = NoCall
    /\ steps = 0
    /\ splitRec = NoSplit
    /\ FilesAtStart
    /\ ClientAtStart

\* the frame of a call that is no split_paragraph
Called(r) ==
    /\ doc' = r.doc
    /\ steps' = steps + 1
    /\ splitRec' = NoSplit
    /\ UNCHANGED <<path, others, seen, procs>>

InsertBeforeText ==
    /\ steps < MaxSteps
    /\ \E q \in Queries, t \in NewTexts, th \in Thresholds, f \in FormatArgs :
        LET r == insert_before_text(doc, q, t, th, f.bold, f.style)
        IN  /\ Called(r)
            /\ call' = [op |-> "insert_before_text", query |-> q, text |-> t, th |-> th,
                        format |-> f, res |-> r.res, pre |-> doc]

InsertAfterText ==
    /\ steps < MaxSteps
    /\ \E q \in Queries, t \in NewTexts, th \in Thresholds, f \in FormatArgs :
        LET r == insert_after_text(doc, q, t, th, f.bold, f.style)
        IN  /\ Called(r)
            /\ call' = [op |-> "insert_after_text", query |-> q, text |-> t, th |-> th,
                        format |-> f, res |-> r.res, pre |-> doc]

InsertAfterHeading ==
    /\ steps < MaxSteps
    /\ \E q \in Queries, t \in NewTexts :
        LET r == insert_after_heading(doc, q, t)
        IN  /\ Called(r)
            /\ call' = [op |-> "insert_after_heading", heading_text |-> q, text |-> t,
                        res |-> r.res, pre |-> doc]

\* a delete_paragraph call with a query from qs
DeleteCall(qs) ==
    \E q \in qs, th \in Thresholds :
        LET r == delete_paragraph(doc, q, th)
        IN  /\ Called(r)
            /\ call' = [op |-> "delete_paragraph", query |-> q, th |-> th,
                        res |-> r.res, pre |-> doc]

DeleteParagraph ==
    /\ steps < MaxSteps
    /\ DeleteCall(Queries)

\* a move_paragraph call with queries from qs
MoveCall(qs) ==
    \E q \in qs, tq \in qs, pos \in Positions, th \in Thresholds :
        LET r == move_paragraph(doc, q, tq, pos, th)
        IN  /\ Called(r)
            /\ call' = [op |-> "move_paragraph", query |-> q, target_query |-> tq,
                        position |-> pos, th |-> th, res |-> r.res, pre |-> doc]

MoveParagraph ==
    /\ steps < MaxSteps
    /\ MoveCall(Queries)

\* a merge_paragraphs call with queries from qs
MergeCall(qs) ==
    \E q1 \in qs, q2 \in qs, sep \in Separators, th \in Thresholds :
        LET r == merge_paragraphs(doc, q1, q2, sep, th)
        IN  /\ Called(r)
            /\ call' = [op |-> "merge_paragraphs", query1 |-> q1, query2 |-> q2,
                        separator |-> sep, th |-> th, res |-> r.res, pre |-> doc,
                        split |-> splitRec]

MergeParagraphs ==
    /\ steps < MaxSteps
    /\ MergeCall(Queries)

DuplicateParagraph ==
    /\ steps < MaxSteps
    /\ \E q \in Queries, tq \in OptQueries, pos \in Positions, th \in Thresholds :
        LET r == duplicate_paragraph(doc, q, tq, pos, th)
        IN  /\ Called(r)
            /\ call' = [op |-> "duplicate_paragraph", query |-> q, target_query |-> tq,
                        position |-> pos, th |-> th, res |-> r.res, pre |-> doc]

\* a split_paragraph call
SplitCallOn(qs, ats) ==
    \E q \in qs, at \in ats, th \in Thresholds :
        LET r == split_paragraph(doc, q, at, th)
        IN  /\ doc' = r.doc
            /\ steps' = steps + 1
            /\ call' = [op |-> "split_paragraph", query |-> q, split_at |-> at, th |-> th,
                        res |-> r.res, pre |-> doc]
            /\ splitRec' = IF r.res.status = "success"
                           THEN [valid |-> TRUE, pre |-> doc,
                                 text |-> ParaText(doc[Paragraphs(doc)[r.res.idx + 1]]),
                                 orig |-> doc[Paragraphs(doc)[r.res.idx + 1]].id,
                                 new |-> FreshId(doc)]
                           ELSE NoSplit
            /\ UNCHANGED <<path, others, seen, procs>>

SplitCall == SplitCallOn(Queries, SplitAts)

SplitParagraph ==
    /\ steps < MaxSteps
    /\ SplitCall

CreateList ==
    /\ steps < MaxSteps
    /\ \E items \in ItemLists, lt \in ListTypes, q \in OptQueries, th \in Thresholds :
        LET r == create_list(doc, items, lt, q, th)
        IN  /\ Called(r)
            /\ call' = [op |-> "create_list", items |-> items, list_type |-> lt,
                        query |-> q, th |-> th, res |-> r.res, pre |-> doc]

Next ==
    \/ InsertBeforeText
    \/ InsertAfterText
    \/ InsertAfterHeading
    \/ DeleteParagraph
    \/ MoveParagraph
    \/ MergeParagraphs
    \/ DuplicateParagraph
    \/ SplitParagraph
    \/ CreateList

\* sessions of at most MaxSteps tool calls on one of InitDocs
Spec == Init /\ [][Next]_vars

InitLong ==
    /\ doc \in LongDocs
    /\ call = NoCall
    /\ steps = 0
    /\ splitRec = NoSplit
    /\ FilesAtStart
    /\ ClientAtStart

\* the same sessions on the documents that hold a long paragraph
SpecLong == InitLong /\ [][Next]_vars

\* the queries of the merge that follows a split
RoundTripQueries == Queries \cup SplitAts

\* split_paragraph as the first call of a session
RoundTripSplit ==
    /\ call = NoCall
    /\ SplitCall

\* merge_paragraphs as the call right after a successful split_paragraph
RoundTripMerge ==
    /\ splitRec.valid
    /\ MergeCall(RoundTripQueries)

NextRoundTrip ==
    \/ RoundTripSplit
    \/ RoundTripMerge

\* split_paragraph on one of InitDocs, then merge_paragraphs
SpecRoundTrip == Init /\ [][NextRoundTrip]_vars

-----------------------------------------------------------------------------
(* The resolver on its own *)

MaxParas == 2

\* "Conclusio": the query "Conclusion" is not in it, and the ratio is 18/19
NearMiss == <<"C", "o", "n", "c", "l", "u", "s", "i", "o">>

\* a sentence that holds "conclusion": ratio 20/45 with the query "Conclusion"
Mention ==
    <<"I", "n", " ", "c", "o", "n", "c", "l", "u", "s", "i", "o", "n", ",", " ", "a", "l", "l", " ", "t", "h", "e", " ", "t", "e", "s", "t", "s", " ", "p", "a", "s", "s", "e", "d">>

Blank == <<" ">>

FindTexts == {Conclusion, NearMiss, Mention, Intro, Blank}

FindQueries == {Conclusion, Intro, <<"z", "z">>}

\* thresholds in tenths
FindThresholds == {0, DefaultThreshold, 10}

\* the document whose paragraphs have the texts of ts, one run each
DocOfTexts(ts) == [i \in 1..Len(ts) |-> Para(i, <<Run(ts[i])>>, "Normal")]

FindDocs == {DocOfTexts(ts) : ts \in UNION {[1..n -> FindTexts] : n \in 1..MaxParas}}

InitFind ==
    /\ doc \in FindDocs
    /\ call = NoCall
    /\ steps = 0
    /\ splitRec = NoSplit
    /\ FilesAtStart
    /\ ClientAtStart

\* one call of find_paragraph_by_text on the document
FindParagraph ==
    /\ call = NoCall
    /\ \E q \in FindQueries, th \in FindThresholds :
          call' = [op |-> "find_paragraph_by_text", query |-> q, th |-> th, pre |-> doc,
                   match |-> find_paragraph_by_text(doc, q, th)]
    /\ UNCHANGED <<doc, steps, splitRec, path, others, seen, procs>>

NextFind == FindParagraph

\* find_paragraph_by_text applied to the documents of FindDocs
SpecFind == InitFind /\ [][NextFind]_vars

-----------------------------------------------------------------------------
(* The placeholder tools on templates *)

Name == <<"<", "<", "N", "a", "m", "e", ">", ">">>
Date == <<"<", "D", ">">>
Ada == <<"A", "d", "a">>
NameIsHere == <<"<", "<", "N", "a", "m", "e", ">", ">", " ", "i", "s", " ", "h", "e", "r", "e", ".">>

\* the template of one placeholder in one run
DocTemplate ==
    <<Para(1, <<Run(Intro)>>, "Normal"),
      Para(2, <<Run(NameIsHere)>>, "Normal"),
      Para(3, <<Run(Conclusion)>>, "Normal")>>

\* occurrences in different runs, an occurrence that spans two runs, and a table
\* with two occurrences in one cell
DocSpread ==
    <<Para(1, <<Run(Name \o <<" ">>), Run(Name)>>, "Normal"),
      Para(2, <<Run(SubSeq(Name, 1, 3)), Run(SubSeq(Name, 4, Len(Name)))>>, "Normal"),
      Tbl(3, <<<<Name, Date>>, <<Name \o Name, Body>>>>)>>

\* two occurrences in one run; an occurrence in a run and one that spans two runs
DocTwice ==
    <<Para(1, <<Run(Name \o <<" ">> \o Name)>>, "Normal"),
      Para(2, <<Run(Name \o SubSeq(Date, 1, 1)), Run(SubSeq(Date, 2, Len(Date)))>>, "Normal")>>

FillDocs == {DocTemplate, DocSpread, DocTwice}

Placeholders == {Name, Date, <<"z", "z">>}

Values == {Ada, Date, <<>>}

\* the mappings of one or two entries with different keys
Mappings ==
    {<<<<k, v>>>> : k \in Placeholders, v \in Values}
        \cup {<<<<k1, v1>>, <<k2, v2>>>> :
                 k1 \in Placeholders, v1 \in Values,
                 k2 \in Placeholders, v2 \in Values}

InitFill ==
    /\ doc \in FillDocs
    /\ call = NoCall
    /\ steps = 0
    /\ splitRec = NoSplit
    /\ FilesAtStart
    /\ ClientAtStart

\* a replace_placeholder call with a placeholder from ks and a value from vs
ReplaceCall(ks, vs) ==
    \E k \in ks, v \in vs :
        LET r == replace_placeholder(doc, k, v)
        IN  /\ Called(r)
            /\ call' = [op |-> "replace_placeholder", placeholder |-> k, value |-> v,
                        res |-> r.res, pre |-> doc]

ReplacePlaceholder ==
    /\ steps < MaxSteps
    /\ ReplaceCall(Placeholders, Values)

ReplacePlaceholders ==
    /\ steps < MaxSteps
    /\ \E m \in Mappings :
        /\ \A i, j \in 1..Len(m) : m[i][1] = m[j][1] => i = j
        /\ LET r == replace_placeholders(doc, m)
           IN  /\ Called(r)
               /\ call' = [op |-> "replace_placeholders", replacements |-> m,
                           res |-> r.res, pre |-> doc]

NextFill ==
    \/ ReplacePlaceholder
    \/ ReplacePlaceholders

\* sessions of at most MaxSteps placeholder calls on one of FillDocs
SpecFill == InitFill /\ [][NextFill]_vars

-----------------------------------------------------------------------------
(* detect_table_format on generated texts *)

MaxRows == 2

CellTexts == {<<"A">>, <<"1">>, <<>>, <<"-">>}

Widths == {1, 2}

\* the grids of at most MaxRows rows of the same width
Grids ==
    UNION {[1..n -> [1..w -> CellTexts]] : n \in 1..MaxRows, w \in Widths}

\* "| c1 | c2 | ... |": the line generated for a row
RECURSIVE RowCells(_, _)
RowCells(row, i) ==
    IF i > Len(row) THEN <<>>
    ELSE <<" ">> \o row[i] \o <<" ", "|">> \o RowCells(row, i + 1)

RowLine(row) == <<"|">> \o RowCells(row, 1)

\* "|---|---|": the separator line generated for a width
RECURSIVE SeparatorLine(_)
SeparatorLine(w) ==
    IF w = 0 THEN <<"|">> ELSE SeparatorLine(w - 1) \o <<"-", "-", "-", "|">>

\* the lines generated for the rows of a grid from row r on
RECURSIVE MoreLines(_, _)
MoreLines(grid, r) ==
    IF r > Len(grid) THEN <<>>
    ELSE <<"\n">> \o RowLine(grid[r]) \o MoreLines(grid, r + 1)

\* the markdown text generated for a grid: the separator line after row 0
MarkdownOf(grid) ==
    RowLine(grid[1]) \o <<"\n">> \o SeparatorLine(Len(grid[1])) \o MoreLines(grid, 2)

\* lines of tab-delimited and of plain text
TabLines ==
    {<<"A", "\t", "B">>, <<"1", "\t">>, <<"\t", "1">>, <<" ", "A", " ", "\t", "1">>,
     <<"A", "\t", "B", "\t", "1">>, <<"A", " ", "B">>, <<" ">>}

\* the text of the lines, a newline after each but the last
RECURSIVE JoinLines(_)
JoinLines(ls) ==
    IF Len(ls) = 1 THEN ls[1] ELSE ls[1] \o <<"\n">> \o JoinLines(Tail(ls))

LineTexts == {JoinLines(ls) : ls \in UNION {[1..n -> TabLines] : n \in 1..(MaxRows + 1)}}

\* the inputs: a text, and the grid it was generated from when it was generated
DetectInputs ==
    {[op |-> "text", text |-> MarkdownOf(g), grid |-> g] : g \in Grids}
        \cup {[op |-> "text", text |-> t, grid |-> <<>>] : t \in LineTexts}

InitDetect ==
    /\ doc = <<>>
    /\ call \in DetectInputs
    /\ steps = 0
    /\ splitRec = NoSplit
    /\ FilesAtStart
    /\ ClientAtStart

\* one call of detect_table_format on the text
DetectTableFormat ==
    /\ call.op = "text"
    /\ call' = [op |-> "detect_table_format", text |-> call.text, grid |-> call.grid,
                res |-> detect_table_format(call.text)]
    /\ UNCHANGED <<doc, steps, splitRec, path, others, seen, procs>>

NextDetect == DetectTableFormat

\* detect_table_format applied to the texts of DetectInputs
SpecDetect == InitDetect /\ [][NextDetect]_vars

-----------------------------------------------------------------------------
(* The tools on the files of the directory *)

MaxFileSteps == 2

NoSuchText == <<"z", "z">>

\* "notes" names notes.docx; "n" is in "notes" and in "new"; "m" is in "MCP"
FileQueries == {Stem(NotesFile), <<"n">>, <<"m">>, NoSuchText}

\* "new" gets its extension; notes.docx exists
FileNames == {<<"n", "e", "w">>, NotesFile}

Titles == {None, Some(Intro)}

\* a new file, a file that exists, the active file at the start
SaveNames == {<<"c">>, NotesFile, DefaultPath}

\* "|A|" is a markdown table of one cell, "A" is no table
TableTexts == {<<"|", "A", "|">>, <<"A">>}

Anchors == {None, Some(Intro), Some(NoSuchText)}

\* the table of DocSection has one row of two cells
CellIndexes == {0, 2}

\* the two ways python-docx lays out table.rows[row].cells
CellLayouts == {"rows", "flat"}

\* "B." ends the paragraph "A. B.", "." is in it and "z" is not
FileSplitAts == {<<".">>, <<"B", ".">>, <<"z">>}

InitFiles ==
    /\ doc = DocSection
    /\ call = NoCall
    /\ steps = 0
    /\ splitRec = NoSplit
    /\ FilesAtStart
    /\ ClientAtStart

\* the frame of a call of a file tool
FileCalled(r) ==
    /\ doc' = r.doc
    /\ path' = r.path
    /\ others' = r.others
    /\ steps' = steps + 1
    /\ splitRec' = NoSplit
    /\ UNCHANGED <<seen, procs>>

SwitchDocument ==
    /\ steps < MaxFileSteps
    /\ \E q \in FileQueries :
        \E r \in switch_document(doc, path, others, q) :
            /\ FileCalled(r)
            /\ call' = [op |-> "switch_document", query |-> q, res |-> r.res, pre |-> doc]

CreateDocument ==
    /\ steps < MaxFileSteps
    /\ \E f \in FileNames, t \in Titles, s \in BOOLEAN :
        LET r == create_document(doc, path, others, f, t, s)
        IN  /\ FileCalled(r)
            /\ call' = [op |-> "create_document", filename |-> f, title |-> t,
                        switch_to |-> s, res |-> r.res, pre |-> doc]

SaveDocumentAs ==
    /\ steps < MaxFileSteps
    /\ \E f \in SaveNames :
        LET r == save_document_as(doc, path, others, f)
        IN  /\ FileCalled(r)
            /\ call' = [op |-> "save_document_as", filename |-> f, res |-> r.res,
                        pre |-> doc]

InsertTable ==
    /\ steps < MaxFileSteps
    /\ \E t \in TableTexts, q \in Anchors :
        LET r == insert_table(doc, t, q)
        IN  /\ Called(r)
            /\ call' = [op |-> "insert_table", text |-> t, query |-> q, res |-> r.res,
                        pre |-> doc]

UpdateTableCell ==
    /\ steps < MaxFileSteps
    /\ \E i \in CellIndexes, r \in CellIndexes, c \in CellIndexes, l \in CellLayouts :
        LET u == update_table_cell(doc, i, r, c, Intro, l)
        IN  /\ Called(u)
            /\ call' = [op |-> "update_table_cell", table_index |-> i, row |-> r,
                        column |-> c, text |-> Intro, layout |-> l, res |-> u.res,
                        pre |-> doc]

DeleteInFile ==
    /\ steps < MaxFileSteps
    /\ DeleteCall({Intro, NoSuchText})

MoveInFile ==
    /\ steps < MaxFileSteps
    /\ MoveCall({Intro, NoSuchText})

SplitInFile ==
    /\ steps < MaxFileSteps
    /\ SplitCallOn({Sentences}, FileSplitAts)

ReplaceInFile ==
    /\ steps < MaxFileSteps
    /\ ReplaceCall({Body, NoSuchText}, {Intro})

NextFiles ==
    \/ SwitchDocument
    \/ CreateDocument
    \/ SaveDocumentAs
    \/ InsertTable
    \/ UpdateTableCell
    \/ DeleteInFile
    \/ MoveInFile
    \/ SplitInFile
    \/ ReplaceInFile

\* sessions of at most MaxFileSteps calls that start on DocSection in MCP.docx
SpecFiles == InitFiles /\ [][NextFiles]_vars

-----------------------------------------------------------------------------
(* Two calls in progress at once: get_document and save_document are separate *)
(* steps and nothing locks the file between them                              *)

\* the two servers that have the file open
Procs == {1, 2}

\* texts no document of RaceDocs holds
RaceTexts == {<<"X">>, <<"Y">>}

RaceQueries == {Intro, Conclusion, NoSuchText}

RaceDocs == {DocOutline, DocRuns}

\* Document(CURRENT_DOCX_PATH): the call works on its own copy of the persisted document
get_document(persisted) == persisted

\* a save that does not reach the file
save_document_lost(persisted, d) == persisted

\* doc.save(CURRENT_DOCX_PATH): the file holds the document of the call, whatever it held
save_document(persisted, d) == d

Idle == [pc |-> "idle"]

InitRace ==
    /\ doc \in RaceDocs
    /\ call = NoCall
    /\ steps = 0
    /\ splitRec = NoSplit
    /\ FilesAtStart
    /\ seen = NoListing
    /\ procs = [p \in Procs |-> Idle]

\* insert_after_text up to its first line: doc = get_document()
Load(p) ==
    /\ procs[p].pc = "idle"
    /\ \E q \in RaceQueries, t \in RaceTexts :
        procs' = [procs EXCEPT ![p] = [pc |-> "loaded", query |-> q, text |-> t,
                                       loaded |-> get_document(doc)]]
    /\ UNCHANGED <<doc, call, steps, splitRec, path, others, seen>>

\* the rest of insert_after_text on the copy the call loaded: the error returns
\* without a save, the success after save_document
EditAndSave(p) ==
    /\ procs[p].pc = "loaded"
    /\ LET r == insert_after_text(procs[p].loaded, procs[p].query, procs[p].text,
                                  DefaultThreshold, FALSE, "")
       IN  /\ doc' = IF r.res.status = "success" THEN save_document(doc, r.doc) ELSE doc
           /\ call' = [op |-> "insert_after_text", query |-> procs[p].query,
                       text |-> procs[p].text, th |-> DefaultThreshold, res |-> r.res,
                       pre |-> procs[p].loaded, by |-> p]
           /\ procs' = [procs EXCEPT ![p] = [pc |-> "done", query |-> procs[p].query,
                                             text |-> procs[p].text,
                                             loaded |-> procs[p].loaded,
                                             res |-> r.res, at |-> steps + 1]]
    /\ steps' = steps + 1
    /\ splitRec' = NoSplit
    /\ UNCHANGED <<path, others, seen>>

NextRace == \E p \in Procs : Load(p) \/ EditAndSave(p)

\* two insert_after_text calls on one of RaceDocs, their loads and saves in any order
SpecRace == InitRace /\ [][NextRace]_vars

-----------------------------------------------------------------------------
(* Listing the paragraphs, then addressing them by id *)

MaxIdSteps == 3

IdDocs == {DocBlank, DocTables}

\* the default limit=50, start_index=0; a page of one entry from the second one on
Pages == {[limit |-> 50, start_index |-> 0], [limit |-> 1, start_index |-> 1]}

SearchQueries == {Intro, <<"B", ".">>}

\* ids no listing gave: past the end, negative, no number, no prefix, prefix twice
OtherIds ==
    {ParaPrefix \o <<"9">>, ParaPrefix \o <<"-", "1">>, ParaPrefix \o <<"x">>,
     <<"p", "-", "1">>, ParaPrefix \o ParaPrefix \o <<"0">>}

\* the ids of the listing the client has
SeenIds == {seen.entries[k].id : k \in 1..Len(seen.entries)}

\* the ids a client passes: one of its listing, or one of OtherIds
CallIds == IF seen = NoListing THEN OtherIds ELSE SeenIds \cup OtherIds

InitIds ==
    /\ doc \in IdDocs
    /\ call = NoCall
    /\ steps = 0
    /\ splitRec = NoSplit
    /\ FilesAtStart
    /\ ClientAtStart

\* the frame of a call that reads the document and lists entries
Listed(entries) ==
    /\ seen' = [entries |-> entries, of |-> doc]
    /\ steps' = steps + 1
    /\ UNCHANGED <<doc, splitRec, path, others, procs>>

GetParagraphs ==
    /\ steps < MaxIdSteps
    /\ \E pg \in Pages :
        /\ Listed(get_paragraphs(doc, pg.limit, pg.start_index).paragraphs)
        /\ call' = [op |-> "get_paragraphs", page |-> pg,
                    res |-> get_paragraphs(doc, pg.limit, pg.start_index), pre |-> doc]

Search ==
    /\ steps < MaxIdSteps
    /\ \E q \in SearchQueries :
        /\ Listed(search(doc, q).results)
        /\ call' = [op |-> "search", query |-> q, res |-> search(doc, q), pre |-> doc]

Fetch ==
    /\ steps < MaxIdSteps
    /\ \E id \in CallIds :
        call' = [op |-> "fetch", id |-> id, res |-> fetch(doc, id), pre |-> doc]
    /\ steps' = steps + 1
    /\ UNCHANGED <<doc, splitRec, path, others, seen, procs>>

UpdateParagraph ==
    /\ steps < MaxIdSteps
    /\ \E id \in CallIds, f \in FormatArgs :
        LET r == update_paragraph(doc, id, Body, f.bold, f.style)
        IN  /\ Called(r)
            /\ call' = [op |-> "update_paragraph", id |-> id, text |-> Body,
                        format |-> f, res |-> r.res, pre |-> doc]

DeleteListed ==
    /\ steps < MaxIdSteps
    /\ DeleteCall({Intro})

NextIds ==
    \/ GetParagraphs
    \/ Search
    \/ Fetch
    \/ UpdateParagraph
    \/ DeleteListed

\* sessions of at most MaxIdSteps calls that list, fetch, update and delete
SpecIds == InitIds /\ [][NextIds]_vars

-----------------------------------------------------------------------------
(* The table tools on tables whose rows differ in length *)

MaxTableSteps == 1

\* a table whose second row is shorter, a paragraph, a table whose first row is shorter
DocRagged ==
    <<Tbl(1, <<<<Intro, Body>>, <<Conclude>>>>),
      Para(2, <<Run(Intro)>>, "Normal"),
      Tbl(3, <<<<Intro>>, <<Body, Conclude>>>>)>>

\* a table of two rows of two cells between two paragraphs
DocGrid ==
    <<Para(1, <<Run(Intro)>>, "Normal"),
      Tbl(2, <<<<Intro, Body>>, <<Body, Intro>>>>),
      Para(3, <<Run(Conclusion)>>, "Normal")>>

TableDocs == {DocRagged, DocGrid}

\* indices before, in and past the tables, rows and columns of TableDocs
Indexes == {-1, 0, 1, 2}

InitTables ==
    /\ doc \in TableDocs
    /\ call = NoCall
    /\ steps = 0
    /\ splitRec = NoSplit
    /\ FilesAtStart
    /\ ClientAtStart

UpdateCell ==
    /\ steps < MaxTableSteps
    /\ \E i \in Indexes, r \in Indexes, c \in Indexes, l \in CellLayouts :
        LET u == update_table_cell(doc, i, r, c, Sentences, l)
        IN  /\ Called(u)
            /\ call' = [op |-> "update_table_cell", table_index |-> i, row |-> r,
                        column |-> c, text |-> Sentences, layout |-> l, res |-> u.res,
                        pre |-> doc]

DeleteTable ==
    /\ steps < MaxTableSteps
    /\ \E i \in Indexes :
        LET r == delete_table(doc, i)
        IN  /\ Called(r)
            /\ call' = [op |-> "delete_table", table_index |-> i, res |-> r.res,
                        pre |-> doc]

DeleteTableRow ==
    /\ steps < MaxTableSteps
    /\ \E i \in Indexes, w \in Indexes :
        LET r == delete_table_row(doc, i, w)
        IN  /\ Called(r)
            /\ call' = [op |-> "delete_table_row", table_index |-> i, row |-> w,
                        res |-> r.res, pre |-> doc]

NextTables ==
    \/ UpdateCell
    \/ DeleteTable
    \/ DeleteTableRow

\* sessions of at most MaxTableSteps table calls on one of TableDocs
SpecTables == InitTables /\ [][NextTables]_vars

-----------------------------------------------------------------------------
(* The heading levels: insert_after_heading and get_document_outline *)

MaxHeadingSteps == 2

\* a section of level 1 that holds a heading whose suffix is no integer
DocLevels ==
    <<Para(1, <<Run(Intro)>>, "Heading 1"),
      Para(2, <<Run(Body)>>, "Normal"),
      Para(3, <<Run(Conclude)>>, "Heading X"),
      Para(4, <<Run(Sentences)>>, "Normal"),
      Para(5, <<Run(Conclusion)>>, "Heading 1")>>

HeadingDocs == {DocLevels, DocTables, DocOutline}

HeadingQueries == {Intro, Conclude, Conclusion, NoSuchText}

HeadingTexts == {Body, <<"X">>}

InitHeadings ==
    /\ doc \in HeadingDocs
    /\ call = NoCall
    /\ steps = 0
    /\ splitRec = NoSplit
    /\ FilesAtStart
    /\ ClientAtStart

InsertInSection ==
    /\ steps < MaxHeadingSteps
    /\ \E q \in HeadingQueries, t \in HeadingTexts :
        LET r == insert_after_heading(doc, q, t)
        IN  /\ Called(r)
            /\ call' = [op |-> "insert_after_heading", heading_text |-> q, text |-> t,
                        res |-> r.res, pre |-> doc]

GetDocumentOutline ==
    /\ steps < MaxHeadingSteps
    /\ call' = [op |-> "get_document_outline", res |-> get_document_outline(doc),
                pre |-> doc]
    /\ steps' = steps + 1
    /\ UNCHANGED <<doc, splitRec, path, others, seen, procs>>

NextHeadings ==
    \/ InsertInSection
    \/ GetDocumentOutline

\* sessions of at most MaxHeadingSteps calls on documents with headings
SpecHeadings == InitHeadings /\ [][NextHeadings]_vars

-----------------------------------------------------------------------------
(* The tools that take a style *)

BoldArgs == {"None", "True", "False"}

StyleArgs == {"", "Heading 2", "Fancy"}

AddParagraph ==
    /\ steps < MaxSteps
    /\ \E t \in NewTexts \cup {<<>>}, f \in FormatArgs :
        LET r == add_paragraph_tool(doc, t, f.bold, f.style)
        IN  /\ Called(r)
            /\ call' = [op |-> "add_paragraph", text |-> t, format |-> f,
                        res |-> r.res, pre |-> doc]

FormatParagraph ==
    /\ steps < MaxSteps
    /\ \E q \in Queries, bold \in BoldArgs, style \in StyleArgs, th \in Thresholds :
        LET r == format_paragraph(doc, q, bold, style, th)
        IN  /\ Called(r)
            /\ call' = [op |-> "format_paragraph", query |-> q, th |-> th,
                        format |-> [bold |-> bold, style |-> style],
                        res |-> r.res, pre |-> doc]

AddListItem ==
    /\ steps < MaxSteps
    /\ \E q \in Queries, t \in NewTexts, lt \in ListTypes, th \in Thresholds :
        LET r == add_list_item(doc, q, t, lt, th)
        IN  /\ Called(r)
            /\ call' = [op |-> "add_list_item", query |-> q, text |-> t, list_type |-> lt,
                        th |-> th, res |-> r.res, pre |-> doc]

NextStyles ==
    \/ InsertBeforeText
    \/ InsertAfterText
    \/ AddParagraph
    \/ FormatParagraph
    \/ CreateList
    \/ AddListItem

\* sessions of at most MaxSteps calls of the tools that take a style
SpecStyles == Init /\ [][NextStyles]_vars

-----------------------------------------------------------------------------
(* Sequences of structural calls *)

MaxBlockSteps == 2

BlockDocs == {DocRuns, DocTables}

BlockQueries == {Intro, <<"A", ".">>, NoSuchText}

BlockFormats == {[bold |-> FALSE, style |-> ""]}

BlockTargets == {None, Some(Intro)}

InitBlocks ==
    /\ doc \in BlockDocs
    /\ call = NoCall
    /\ steps = 0
    /\ splitRec = NoSplit
    /\ FilesAtStart
    /\ ClientAtStart

InsertAfterInBlocks ==
    /\ steps < MaxBlockSteps
    /\ \E q \in BlockQueries, t \in NewTexts, th \in Thresholds, f \in BlockFormats :
        LET r == insert_after_text(doc, q, t, th, f.bold, f.style)
        IN  /\ Called(r)
            /\ call' = [op |-> "insert_after_text", query |-> q, text |-> t, th |-> th,
                        format |-> f, res |-> r.res, pre |-> doc]

InsertBeforeInBlocks ==
    /\ steps < MaxBlockSteps
    /\ \E q \in BlockQueries, t \in NewTexts, th \in Thresholds, f \in BlockFormats :
        LET r == insert_before_text(doc, q, t, th, f.bold, f.style)
        IN  /\ Called(r)
            /\ call' = [op |-> "insert_before_text", query |-> q, text |-> t, th |-> th,
                        format |-> f, res |-> r.res, pre |-> doc]

DeleteInBlocks == steps < MaxBlockSteps /\ DeleteCall(BlockQueries)

MoveInBlocks == steps < MaxBlockSteps /\ MoveCall(BlockQueries)

DuplicateInBlocks ==
    /\ steps < MaxBlockSteps
    /\ \E q \in BlockQueries, tq \in BlockTargets, pos \in Positions, th \in Thresholds :
        LET r == duplicate_paragraph(doc, q, tq, pos, th)
        IN  /\ Called(r)
            /\ call' = [op |-> "duplicate_paragraph", query |-> q, target_query |-> tq,
                        position |-> pos, th |-> th, res |-> r.res, pre |-> doc]

SplitInBlocks == steps < MaxBlockSteps /\ SplitCallOn(BlockQueries, SplitAts)

MergeInBlocks == steps < MaxBlockSteps /\ MergeCall(BlockQueries)

CreateListInBlocks ==
    /\ steps < MaxBlockSteps
    /\ \E items \in ItemLists, q \in BlockTargets, th \in Thresholds :
        LET r == create_list(doc, items, "bullet", q, th)
        IN  /\ Called(r)
            /\ call' = [op |-> "create_list", items |-> items, list_type |-> "bullet",
                        query |-> q, th |-> th, res |-> r.res, pre |-> doc]

NextBlocks ==
    \/ InsertAfterInBlocks
    \/ InsertBeforeInBlocks
    \/ DeleteInBlocks
    \/ MoveInBlocks
    \/ DuplicateInBlocks
    \/ SplitInBlocks
    \/ MergeInBlocks
    \/ CreateListInBlocks

\* sessions of at most MaxBlockSteps structural calls on one of BlockDocs
SpecBlocks == InitBlocks /\ [][NextBlocks]_vars

-----------------------------------------------------------------------------
(* Vocabulary of the properties *)

\* the sequence s without its element at place p
Drop(s, p) == [i \in 1..(Len(s) - 1) |-> IF i < p THEN s[i] ELSE s[i + 1]]

\* the last call returned success
Succeeded == call.res.status = "success"

\* the anchor a query of the last call resolves to in the document the call loaded
Resolved(query) == find_paragraph_by_text(call.pre, query, call.th)

\* block b is a paragraph that the document the call loaded does not hold
IsNewParagraph(b) == b.kind = "p" /\ b.id \notin Ids(call.pre)

\* no two blocks of the document are the same block
NoBlockTwice == \A p, q \in 1..Len(doc) : doc[p].id = doc[q].id => p = q

-----------------------------------------------------------------------------
(* C1 *)

\* after insert_after_text: one new paragraph right after the anchor at place a,
\* every block the call loaded unchanged and in its order
SplicedAfter(a) ==
    /\ Succeeded
    /\ Len(doc) = Len(call.pre) + 1
    /\ IsNewParagraph(doc[a + 1])
    /\ ParaText(doc[a + 1]) = call.text
    /\ doc[a] = call.pre[a]
    /\ a < Len(call.pre) => doc[a + 2] = call.pre[a + 1]
    /\ Drop(doc, a + 1) = call.pre

\* after insert_before_text: one new paragraph right before the anchor that was at a
SplicedBefore(a) ==
    /\ Succeeded
    /\ Len(doc) = Len(call.pre) + 1
    /\ IsNewParagraph(doc[a])
    /\ ParaText(doc[a]) = call.text
    /\ doc[a + 1] = call.pre[a]
    /\ a > 1 => doc[a - 1] = call.pre[a - 1]
    /\ Drop(doc, a) = call.pre

\* C1: when the query resolves to an anchor paragraph, insert_after_text puts exactly
\* one new paragraph immediately after it and insert_before_text immediately before
\* it; the former successor (predecessor) of the anchor follows (precedes) the new
\* paragraph, the block count grows by one and every block that was there keeps its
\* content and its relative order.
C1_InsertSplices ==
    /\ (call.op = "insert_after_text" /\ Resolved(call.query).found)
          => SplicedAfter(Resolved(call.query).pos)
    /\ (call.op = "insert_before_text" /\ Resolved(call.query).found)
          => SplicedBefore(Resolved(call.query).pos)

\* an insert_after_text whose anchor had a table as its successor
C1_Witness ==
    /\ call.op = "insert_after_text"
    /\ Succeeded
    /\ Resolved(call.query).pos < Len(call.pre)
    /\ call.pre[Resolved(call.query).pos + 1].kind = "t"

-----------------------------------------------------------------------------
(* C2 *)

\* after move_paragraph of the block at s to the block at t (places in call.pre)
Moved(s, t) ==
    /\ Succeeded
    /\ Len(doc) = Len(call.pre)
    /\ NoBlockTwice
    /\ \A p \in 1..Len(call.pre) :
          call.pre[p].id \in Ids(doc) /\ doc[PosOf(doc, call.pre[p].id)] = call.pre[p]
    /\ IF call.position = BeforeWord
       THEN PosOf(doc, call.pre[s].id) + 1 = PosOf(doc, call.pre[t].id)
       ELSE PosOf(doc, call.pre[s].id) = PosOf(doc, call.pre[t].id) + 1
    /\ Drop(doc, PosOf(doc, call.pre[s].id)) = Drop(call.pre, s)
    /\ (call.position = BeforeWord /\ t = 1) => doc[1] = call.pre[s]

\* C2: when query and target_query resolve to two different paragraphs S and T,
\* move_paragraph leaves a permutation of the blocks it loaded, with S immediately
\* before T for position "before" and immediately after T otherwise, all blocks other
\* than S in their relative order; moving before the first block puts S at the front.
C2_MovePermutes ==
    (/\ call.op = "move_paragraph"
     /\ Resolved(call.query).found
     /\ Resolved(call.target_query).found
     /\ Resolved(call.query).pos # Resolved(call.target_query).pos)
        => Moved(Resolved(call.query).pos, Resolved(call.target_query).pos)

\* the last paragraph moved before the first block of the document
C2_Witness ==
    /\ call.op = "move_paragraph"
    /\ Succeeded
    /\ call.position = BeforeWord
    /\ Resolved(call.query).pos = Len(call.pre)
    /\ Resolved(call.target_query).pos = 1
    /\ doc[1] = call.pre[Len(call.pre)]

-----------------------------------------------------------------------------
(* C3 *)

\* after delete_paragraph of the block at a: exactly that block is gone
Deleted(a) ==
    /\ Succeeded
    /\ Len(doc) = Len(call.pre) - 1
    /\ doc = Drop(call.pre, a)

\* C3 as stated: delete_paragraph removes exactly the anchor block and returns the
\* text the anchor had before the removal as deleted_text.
C3_DeleteReturnsText ==
    (call.op = "delete_paragraph" /\ Resolved(call.query).found)
        => /\ Deleted(Resolved(call.query).pos)
           /\ call.res.deleted_text = ParaText(call.pre[Resolved(call.query).pos])

\* the text t as the results show it: whole up to PreviewLimit characters, else its
\* first PreviewLimit characters and three dots
Shown(t, shown) ==
    IF Len(t) <= PreviewLimit THEN shown = t
    ELSE /\ Len(shown) = PreviewLimit + 3
         /\ \A i \in 1..PreviewLimit : shown[i] = t[i]
         /\ \A i \in 1..3 : shown[PreviewLimit + i] = "."

\* C3 amended: delete_paragraph removes exactly the anchor block; deleted_text is the
\* text the anchor had when it has at most 100 characters, and its first 100
\* characters followed by "..." when it is longer.
C3_DeleteReturnsPreview ==
    (call.op = "delete_paragraph" /\ Resolved(call.query).found)
        => /\ Deleted(Resolved(call.query).pos)
           /\ Shown(ParaText(call.pre[Resolved(call.query).pos]), call.res.deleted_text)

\* a paragraph of more than 100 characters deleted from behind a table
C3_Witness ==
    /\ call.op = "delete_paragraph"
    /\ Succeeded
    /\ Len(ParaText(call.pre[Resolved(call.query).pos])) > PreviewLimit
    /\ \E p \in 1..Len(call.pre) : call.pre[p].kind = "t" /\ p < Resolved(call.query).pos

-----------------------------------------------------------------------------
(* C4 *)

\* the place in call.pre of the block that is at place p after the block at gone left
Origin(p, gone) == IF p < gone THEN p ELSE p + 1

\* the runs of the first paragraph after the merge: the tail went to the last run
RunsExtended(old, new, tail) ==
    /\ Len(new) = Len(old)
    /\ \A i \in 1..(Len(old) - 1) : new[i] = old[i]
    /\ new[Len(new)].text = old[Len(old)].text \o tail

\* after merge_paragraphs of the block at p2 into the block at p1 (places in call.pre)
MergedInto(p1, p2) ==
    /\ Succeeded
    /\ Len(doc) = Len(call.pre) - 1
    /\ call.pre[p2].id \notin Ids(doc)
    /\ \A p \in 1..Len(doc) :
          IF Origin(p, p2) = p1
          THEN /\ doc[p].id = call.pre[p1].id
               /\ ParaText(doc[p]) =
                     ParaText(call.pre[p1]) \o call.separator \o ParaText(call.pre[p2])
               /\ RunsExtended(call.pre[p1].runs, doc[p].runs,
                               call.separator \o ParaText(call.pre[p2]))
          ELSE doc[p] = call.pre[Origin(p, p2)]

\* C4: when query1 and query2 resolve to two different paragraphs P1 and P2,
\* merge_paragraphs leaves P1 with the text old(P1) + separator + old(P2), the
\* appended text in the last run of P1 and the earlier runs unchanged, removes the
\* block P2 and leaves every other block unchanged and in its order.
C4_MergeAppends ==
    (/\ call.op = "merge_paragraphs"
     /\ Resolved(call.query1).found
     /\ Resolved(call.query2).found
     /\ Resolved(call.query1).pos # Resolved(call.query2).pos)
        => MergedInto(Resolved(call.query1).pos, Resolved(call.query2).pos)

\* a merge into a paragraph of two runs, with a separator
C4_Witness ==
    /\ call.op = "merge_paragraphs"
    /\ Succeeded
    /\ Len(call.pre[Resolved(call.query1).pos].runs) = 2
    /\ call.separator # <<>>

-----------------------------------------------------------------------------
(* C5 *)

\* the offset of the end of the first occurrence of s in t
FirstEnd(t, s) ==
    Len(s) + CHOOSE i \in 0..Len(t) :
                 OccursAt(s, t, i) /\ \A j \in 0..(i - 1) : ~OccursAt(s, t, j)

\* after split_paragraph of the block at a, cut at offset c, where rest is what the
\* new paragraph has to hold
SplitInto(a, t, c, rest) ==
    IF rest = <<>>
    THEN ~Succeeded /\ doc = call.pre
    ELSE /\ Succeeded
         /\ Len(doc) = Len(call.pre) + 1
         /\ doc[a].id = call.pre[a].id
         /\ ParaText(doc[a]) = SubSeq(t, 1, c)
         /\ IsNewParagraph(doc[a + 1])
         /\ ParaText(doc[a + 1]) = rest
         /\ \A p \in 1..Len(call.pre) : p # a => Drop(doc, a + 1)[p] = call.pre[p]

\* the last call is a split_paragraph whose query resolves to a paragraph that
\* holds split_at
SplitApplies ==
    /\ call.op = "split_paragraph"
    /\ Resolved(call.query).found
    /\ Contains(call.split_at, ParaText(call.pre[Resolved(call.query).pos]))

\* the text of the paragraph the split is about, and what follows the cut in it
SplitText == ParaText(call.pre[Resolved(call.query).pos])
SplitRest == SubSeq(SplitText, FirstEnd(SplitText, call.split_at) + 1, Len(SplitText))

\* C5 as stated: split_paragraph cuts at the end of the first occurrence of split_at,
\* the original keeps the prefix, a new paragraph right after it holds the remainder
\* trimmed (at both ends), and an empty trimmed remainder is an error without change.
C5_SplitTrimmed ==
    SplitApplies
        => SplitInto(Resolved(call.query).pos, SplitText,
                     FirstEnd(SplitText, call.split_at), Strip(SplitRest))

\* C5 amended: split_paragraph cuts at the end of the first occurrence of split_at,
\* the original keeps the prefix up to and including it, a new paragraph spliced right
\* after it holds the remainder without its leading whitespace (trailing whitespace
\* stays), the count grows by one and the other blocks are unchanged; a remainder
\* that is empty without its leading whitespace is an error and changes nothing.
C5_SplitLeftTrimmed ==
    SplitApplies
        => SplitInto(Resolved(call.query).pos, SplitText,
                     FirstEnd(SplitText, call.split_at), LStrip(SplitRest))

\* a split at the first of two occurrences whose remainder ends in whitespace
C5_Witness ==
    /\ SplitApplies
    /\ Succeeded
    /\ Contains(call.split_at, SplitRest)
    /\ SplitRest[Len(SplitRest)] \in Whitespace

-----------------------------------------------------------------------------
(* C6 *)

\* the last call merged, with separator "", the two paragraphs of the split before it
RoundTrip ==
    /\ call.op = "merge_paragraphs"
    /\ call.split.valid
    /\ call.separator = <<>>
    /\ Succeeded
    /\ call.pre[Resolved(call.query1).pos].id = call.split.orig
    /\ call.pre[Resolved(call.query2).pos].id = call.split.new

\* the text of the paragraph that was split, as it is after the merge
RoundTripText == ParaText(doc[PosOf(doc, call.split.orig)])

\* m is t without k whitespace characters that stood together at one place of t
LostWhitespace(t, m, k) ==
    /\ Len(t) = Len(m) + k
    /\ \E c \in 0..Len(m) :
          /\ \A i \in 1..c : t[i] = m[i]
          /\ \A i \in (c + 1)..(c + k) : t[i] \in Whitespace
          /\ \A i \in (c + 1)..Len(m) : t[i + k] = m[i]

\* the blocks are the ones before the split, in their order, all but the split
\* paragraph as they were
RoundTripBlocks ==
    /\ Len(doc) = Len(call.split.pre)
    /\ \A p \in 1..Len(doc) :
          /\ doc[p].id = call.split.pre[p].id
          /\ doc[p].id # call.split.orig => doc[p] = call.split.pre[p]

\* C6 as stated: split_paragraph followed by merge_paragraphs of the two results with
\* separator "" restores the length and order of the blocks and the text t, up to one
\* single space.
C6_RoundTripOneSpace ==
    RoundTrip
        => /\ RoundTripBlocks
           /\ \E k \in 0..1 : LostWhitespace(call.split.text, RoundTripText, k)

\* C6 amended: split_paragraph followed by merge_paragraphs of the two results with
\* separator "" restores the length and order of the blocks, and the text t without
\* the whitespace, of any length, that stood right after the split point.
C6_RoundTripWhitespace ==
    RoundTrip
        => /\ RoundTripBlocks
           /\ \E k \in 0..Len(call.split.text) :
                 LostWhitespace(call.split.text, RoundTripText, k)

\* a round trip that lost two whitespace characters
C6_Witness ==
    /\ RoundTrip
    /\ Len(call.split.text) = Len(RoundTripText) + 2

-----------------------------------------------------------------------------
(* C7 *)

\* the texts of the runs of a paragraph, in order
RunTexts(b) == [i \in 1..Len(b.runs) |-> b.runs[i].text]

\* after duplicate_paragraph of the block at s: the copy is at place n, right before
\* the block that was at t when before holds and right after it otherwise
DuplicatedAt(s, t, before, n) ==
    /\ IsNewParagraph(doc[n])
    /\ RunTexts(doc[n]) = RunTexts(call.pre[s])
    /\ Drop(doc, n) = call.pre
    /\ n = IF before THEN t ELSE t + 1

Duplicated(s, t, before) ==
    /\ Succeeded
    /\ Len(doc) = Len(call.pre) + 1
    /\ \E n \in 1..Len(doc) : DuplicatedAt(s, t, before, n)

\* the last call is a duplicate_paragraph whose queries resolve
DuplicateApplies ==
    /\ call.op = "duplicate_paragraph"
    /\ Resolved(call.query).found
    /\ Truthy(call.target_query) => Resolved(call.target_query.text).found

\* the place of the target of the last duplicate_paragraph: the source by default
DuplicateTarget ==
    IF Truthy(call.target_query)
    THEN Resolved(call.target_query.text).pos
    ELSE Resolved(call.query).pos

\* C7 as stated: duplicate_paragraph adds one new paragraph with the run texts of the
\* source, leaves every block unchanged, and places the copy before or after the
\* target (the source by default) per position; position "before" is honoured
\* whenever it is supplied.
C7_DuplicateHonoursBefore ==
    DuplicateApplies
        => Duplicated(Resolved(call.query).pos, DuplicateTarget,
                      call.position = BeforeWord)

\* C7 amended: duplicate_paragraph adds one new paragraph with the run texts of the
\* source, leaves every block unchanged, and places the copy before or after the
\* target per position when a target_query is given; without a target_query the
\* copy is placed right after the source, whatever the position supplied.
C7_DuplicateAfterSource ==
    DuplicateApplies
        => Duplicated(Resolved(call.query).pos, DuplicateTarget,
                      Truthy(call.target_query) /\ call.position = BeforeWord)

\* a duplicate of a two-run paragraph with position "before" and no target_query
C7_Witness ==
    /\ DuplicateApplies
    /\ Succeeded
    /\ ~call.target_query.given
    /\ call.position = BeforeWord
    /\ Len(call.pre[Resolved(call.query).pos].runs) = 2

-----------------------------------------------------------------------------
(* C8 *)

\* after create_list of n items behind the block at a (a = Len(call.pre) at the end)
ListCreated(a, n) ==
    /\ Succeeded
    /\ Len(doc) = Len(call.pre) + n
    /\ NoBlockTwice
    /\ \A i \in 1..n : IsNewParagraph(doc[a + i]) /\ ParaText(doc[a + i]) = call.items[i]
    /\ \A p \in 1..a : doc[p] = call.pre[p]
    /\ \A p \in (a + 1)..Len(call.pre) : doc[p + n] = call.pre[p]

\* C8: for a non-empty item list create_list adds one new paragraph per item, with
\* the texts of the items in their order, as one contiguous run of blocks: right
\* after the anchor when a (non-empty) query is given and resolves, the former
\* successor of the anchor following the run, and at the end of the document when no
\* query is given; an empty item list or an unresolved query is an error and adds
\* nothing.
C8_ListContiguous ==
    call.op = "create_list"
        => IF call.items = <<>> \/ (Truthy(call.query) /\ ~Resolved(call.query.text).found)
           THEN ~Succeeded /\ doc = call.pre
           ELSE ListCreated(IF Truthy(call.query) THEN Resolved(call.query.text).pos
                            ELSE Len(call.pre),
                            Len(call.items))

\* a list of two items created between an anchor and its successor
C8_Witness ==
    /\ call.op = "create_list"
    /\ Succeeded
    /\ Len(call.items) = 2
    /\ Truthy(call.query)
    /\ Resolved(call.query.text).pos < Len(call.pre)
    /\ doc[Resolved(call.query.text).pos + 3] = call.pre[Resolved(call.query.text).pos + 1]

-----------------------------------------------------------------------------
(* C9 *)

\* the style is a heading style of a level, and the level is at most l
BoundaryStyle(style, l) ==
    /\ IsHeadingStyle(style)
    /\ HeadingSuffix(style).ok
    /\ HeadingSuffix(style).value <= l

\* the places after h of the paragraphs of call.pre that bound a section of level l
Boundaries(h, l) ==
    {p \in (h + 1)..Len(call.pre) :
        call.pre[p].kind = "p" /\ BoundaryStyle(call.pre[p].style, l)}

\* the new paragraph is at place n: right before the first boundary, or the last block
AtSectionEnd(n, bs) ==
    IF bs = {} THEN n = Len(doc)
    ELSE n < Len(doc) /\ doc[n + 1] = call.pre[CHOOSE p \in bs : \A q \in bs : p <= q]

\* C9: when insert_after_heading finds the heading H by its style, at level L, the new
\* paragraph is the direct predecessor, in block order, of the first later paragraph
\* whose heading level is at most L, and the last block of the document when there is
\* no such paragraph, also with tables between or after the paragraphs of the section.
\* (A heading style whose suffix is no integer is taken for no boundary.)
C9_SectionEndInBlockOrder ==
    (call.op = "insert_after_heading" /\ Succeeded /\ call.res.heading_level # 0)
        => AtSectionEnd(PosOf(doc, FreshId(call.pre)),
                        Boundaries(Paragraphs(call.pre)[call.res.heading_idx + 1],
                                   call.res.heading_level))

-----------------------------------------------------------------------------
(* C10 *)

\* the paragraph at place p of call.pre has a non-empty trimmed text that holds the
\* case-folded query of the call
HoldsQuery(p) ==
    /\ Strip(ParaText(call.pre[p])) # <<>>
    /\ Contains(Lower(call.query), Lower(Strip(ParaText(call.pre[p]))))

\* C10: containment is a hard tier above similarity in find_paragraph_by_text: when
\* some paragraph with a non-empty trimmed text holds the case-folded query, the
\* paragraph returned holds the query.
C10_ContainmentOutranks ==
    (/\ call.op = "find_paragraph_by_text"
     /\ \E i \in 1..Len(Paragraphs(call.pre)) : HoldsQuery(Paragraphs(call.pre)[i]))
        => call.match.found /\ HoldsQuery(call.match.pos)

-----------------------------------------------------------------------------
(* C11 *)

\* the trimmed text of the paragraph at place p of call.pre
Trimmed(p) == Strip(ParaText(call.pre[p]))

\* the paragraph at place p is a candidate of the call: its trimmed text is not empty
\* and it holds the query or is similar enough to it
IsCandidate(p) ==
    /\ Trimmed(p) # <<>>
    /\ \/ HoldsQuery(p)
       \/ ScoreGeThreshold(similarity(call.query, Trimmed(p)), call.th)

\* the score of the candidate at place p
CandidateScore(p) ==
    IF HoldsQuery(p) THEN ContainScore(similarity(call.query, Trimmed(p)))
    ELSE similarity(call.query, Trimmed(p))

ScoreEq(s1, s2) == s1[1] * s2[2] = s2[1] * s1[2]

\* the candidate with paragraph index i does not beat the match, nor tie with it from
\* an earlier index
NotBetter(i, p) ==
    /\ ~ScoreGt(CandidateScore(p), call.match.score)
    /\ i < call.match.idx => ~ScoreEq(CandidateScore(p), call.match.score)

\* C11: whenever find_paragraph_by_text returns index i with score s, the paragraph
\* is a candidate with that score, no candidate has a score greater than s and no
\* candidate of a smaller index has a score equal to s; a repeated call on the same
\* document, query and threshold gives the same result.
C11_BestAndFirst ==
    (call.op = "find_paragraph_by_text" /\ call.match.found)
        => /\ IsCandidate(call.match.pos)
           /\ Paragraphs(call.pre)[call.match.idx + 1] = call.match.pos
           /\ ScoreEq(call.match.score, CandidateScore(call.match.pos))
           /\ \A i \in 1..Len(Paragraphs(call.pre)) :
                 IsCandidate(Paragraphs(call.pre)[i])
                     => NotBetter(i - 1, Paragraphs(call.pre)[i])
           /\ find_paragraph_by_text(doc, call.query, call.th) = call.match

\* a call whose best score is held by two paragraphs, the first of them returned
C11_Witness ==
    /\ call.op = "find_paragraph_by_text"
    /\ call.match.found
    /\ \E p \in 1..Len(call.pre) :
          /\ p > call.match.pos
          /\ IsCandidate(p)
          /\ ScoreEq(CandidateScore(p), call.match.score)

-----------------------------------------------------------------------------
(* C12 *)

\* some paragraph of call.pre with a non-empty trimmed text is as similar to the
\* query as the threshold asks
SomeSimilar ==
    \E p \in 1..Len(call.pre) :
        /\ call.pre[p].kind = "p"
        /\ Trimmed(p) # <<>>
        /\ ScoreGeThreshold(similarity(call.query, Trimmed(p)), call.th)

\* C12: when no paragraph holds the query, find_paragraph_by_text returns a match if
\* and only if some paragraph with a non-empty trimmed text has a similarity to the
\* query of at least the threshold, for every threshold from 0 to 1; a paragraph with
\* an empty trimmed text is never returned.
C12_MatchIffSimilar ==
    (/\ call.op = "find_paragraph_by_text"
     /\ \A p \in 1..Len(call.pre) : ~HoldsQuery(p))
        => /\ call.match.found <=> SomeSimilar
           /\ call.match.found => Trimmed(call.match.pos) # <<>>

-----------------------------------------------------------------------------
(* C13 *)

\* the literal is in the text of some paragraph or some table cell of d
Occurs(d, literal) ==
    \E p \in 1..Len(d) :
        IF d[p].kind = "p" THEN Contains(literal, ParaText(d[p]))
        ELSE \E r \in 1..Len(d[p].rows) : \E c \in 1..Len(d[p].rows[r]) :
                 Contains(literal, d[p].rows[r][c])

\* C13: after replace_placeholder(p, v) returns success, v not holding p, no
\* paragraph text and no table cell text of the document holds p, however the
\* occurrences are spread over the runs of a paragraph.
C13_AllOccurrencesReplaced ==
    (/\ call.op = "replace_placeholder"
     /\ Succeeded
     /\ ~Contains(call.placeholder, call.value))
        => ~Occurs(doc, call.placeholder)

-----------------------------------------------------------------------------
(* C14 *)

\* s.count(literal) from offset i on: the occurrences that str.replace replaces
RECURSIVE OccurrencesFrom(_, _, _)
OccurrencesFrom(s, literal, i) ==
    IF i + Len(literal) > Len(s) THEN 0
    ELSE IF OccursAt(literal, s, i) THEN 1 + OccurrencesFrom(s, literal, i + Len(literal))
    ELSE OccurrencesFrom(s, literal, i + 1)

\* the occurrences of the literal in cell c of row r of a table, 0 for no such cell
CellOccurrences(b, literal, r, c) ==
    IF c <= Len(b.rows[r]) THEN OccurrencesFrom(b.rows[r][c], literal, 0) ELSE 0

RECURSIVE RowOccurrences(_, _, _)
RowOccurrences(b, literal, r) ==
    IF r > Len(b.rows) THEN 0
    ELSE CellOccurrences(b, literal, r, 1) + CellOccurrences(b, literal, r, 2)
         + CellOccurrences(b, literal, r, 3) + RowOccurrences(b, literal, r + 1)

\* the occurrences of the literal in the paragraph texts and cell texts of d, from
\* the block at p on
RECURSIVE DocOccurrences(_, _, _)
DocOccurrences(d, literal, p) ==
    IF p > Len(d) THEN 0
    ELSE (IF d[p].kind = "p" THEN OccurrencesFrom(ParaText(d[p]), literal, 0)
          ELSE RowOccurrences(d[p], literal, 1))
         + DocOccurrences(d, literal, p + 1)

\* C14: the count that replace_placeholder reports for a literal (replacements), the
\* value not holding the literal, is the number of occurrences of the literal that
\* the call replaced: the occurrences before the call less those left after it.
C14_CountIsOccurrences ==
    (/\ call.op = "replace_placeholder"
     /\ Succeeded
     /\ ~Contains(call.placeholder, call.value))
        => call.res.replacements
              = DocOccurrences(call.pre, call.placeholder, 1)
                - DocOccurrences(doc, call.placeholder, 1)

-----------------------------------------------------------------------------
(* C15, C16 *)

\* the document after replace_placeholder for the first n entries of the mapping of
\* the call, one after the other, from the document the call loaded
RECURSIVE AfterSingles(_)
AfterSingles(n) ==
    IF n = 0 THEN call.pre
    ELSE replace_placeholder(AfterSingles(n - 1), call.replacements[n][1],
                             call.replacements[n][2]).doc

\* the count replace_placeholder reports for entry n on the document it finds: its
\* error of a literal not found stands for 0
SingleCount(n) ==
    IF replace_placeholder(AfterSingles(n - 1), call.replacements[n][1],
                           call.replacements[n][2]).res.status = "success"
    THEN replace_placeholder(AfterSingles(n - 1), call.replacements[n][1],
                             call.replacements[n][2]).res.replacements
    ELSE 0

\* entry n of replace_placeholders reports whether its literal was in the document it
\* found, and changed nothing when it was not
EntryReported(n) ==
    IF Occurs(AfterSingles(n - 1), call.replacements[n][1])
    THEN call.res.details[n] > 0
    ELSE call.res.details[n] = 0 /\ AfterSingles(n) = AfterSingles(n - 1)

\* C15: replacing a literal that is nowhere in the document changes no paragraph and
\* no table cell and is reported as not found: replace_placeholder returns its
\* not-found error where it returns a count of at least 1 for a literal that is
\* there, and replace_placeholders reports 0 for such an entry and more than 0 for
\* the others.
C15_AbsentLiteral ==
    /\ call.op = "replace_placeholder"
          => IF Occurs(call.pre, call.placeholder)
             THEN Succeeded /\ call.res.replacements > 0
             ELSE ~Succeeded /\ doc = call.pre
    /\ call.op = "replace_placeholders"
          => /\ Succeeded
             /\ \A n \in 1..Len(call.replacements) : EntryReported(n)
             /\ (\A n \in 1..Len(call.replacements) :
                    ~Occurs(call.pre, call.replacements[n][1])) => doc = call.pre

\* a replace_placeholders whose first literal is found and whose second is not
C15_Witness ==
    /\ call.op = "replace_placeholders"
    /\ Len(call.replacements) = 2
    /\ call.res.details[1] > 0
    /\ call.res.details[2] = 0
    /\ ~Occurs(doc, call.replacements[2][1])

\* C16: replace_placeholders leaves the document and reports the counts that
\* replace_placeholder leaves and reports when it is called for the entries one after
\* the other in mapping order, each entry on the text the earlier ones left.
C16_EntriesInOrder ==
    call.op = "replace_placeholders"
        => /\ doc = AfterSingles(Len(call.replacements))
           /\ Len(call.res.details) = Len(call.replacements)
           /\ \A n \in 1..Len(call.replacements) : call.res.details[n] = SingleCount(n)

\* a mapping whose first value holds its second key, so that the second entry
\* replaces what the first one wrote and the other order gives another document
C16_Witness ==
    /\ call.op = "replace_placeholders"
    /\ Len(call.replacements) = 2
    /\ Contains(call.replacements[2][1], call.replacements[1][2])
    /\ call.res.details[1] > 0
    /\ ~Occurs(call.pre, call.replacements[2][1])
    /\ call.res.details[2] > 0
    /\ doc # replace_placeholders(call.pre, <<call.replacements[2], call.replacements[1]>>).doc

-----------------------------------------------------------------------------
(* C17 *)

\* C17: the markdown text generated for a grid G, one "| c1 | c2 | ... |" line per
\* row and a dash separator line after row 0, is detected as (markdown, G): the same
\* rows, the same cells per row and the same cell contents, also for grids with empty
\* cells, rows of only empty cells and cells made only of dashes.
C17_MarkdownRoundTrip ==
    (call.op = "detect_table_format" /\ call.grid # <<>>)
        => call.res.format = "markdown" /\ call.res.table_data = call.grid

-----------------------------------------------------------------------------
(* C18 *)

\* the lines of the text, as they are in it
RawLines(text) == Split(text, "\n")

\* the places of the non-blank lines of the text that hold a tab
TabLinePlaces(text) ==
    {i \in 1..Len(RawLines(text)) :
        /\ Strip(RawLines(text)[i]) # <<>>
        /\ \E k \in 1..Len(RawLines(text)[i]) : RawLines(text)[i][k] = "\t"}

\* the tab-split trimmed cells of the lines at the places of ps, in input order
RECURSIVE RowsOfPlaces(_, _, _)
RowsOfPlaces(text, ps, i) ==
    IF i > Len(RawLines(text)) THEN <<>>
    ELSE IF i \in ps
    THEN <<StripAll(Split(RawLines(text)[i], "\t"))>> \o RowsOfPlaces(text, ps, i + 1)
    ELSE RowsOfPlaces(text, ps, i + 1)

\* C18: when the markdown path does not succeed, detect_table_format returns
\* ('tab', rows) if and only if at least two non-blank lines hold a tab and the
\* largest and the smallest cell count of their rows differ by at most 1, rows being
\* the tab-split trimmed cells of exactly those lines in input order; in every other
\* case it returns (None, []).
C18_TabRule ==
    (call.op = "detect_table_format" /\ call.res.format # "markdown")
        => IF /\ Cardinality(TabLinePlaces(call.text)) >= 2
              /\ SimilarColumnCounts(RowsOfPlaces(call.text, TabLinePlaces(call.text), 1))
           THEN /\ call.res.format = "tab"
                /\ call.res.table_data
                      = RowsOfPlaces(call.text, TabLinePlaces(call.text), 1)
           ELSE call.res = NotDetected

-----------------------------------------------------------------------------
(* C19 *)

\* the result carries an error field
HasError(res) == "error" \in DOMAIN res

\* the persisted documents, by file name
Disk == FilesOf(doc, path, others)

\* C19: a failed call never changes the document: whatever the tool and its input,
\* if the result of a call carries an error field, every persisted document after
\* the call is what it was before the call and the active-document pointer is
\* unchanged.
C19_FailedCallChangesNothing ==
    [][HasError(call'.res) => (Disk' = Disk /\ path' = path)]_vars

\* an insert_table whose anchor is not found, after a call that changed the files
C19_Witness ==
    /\ call.op = "insert_table"
    /\ HasError(call.res)
    /\ call.query = Some(NoSuchText)
    /\ call.text = <<"|", "A", "|">>
    /\ steps >= 2
    /\ Disk # FilesOf(DocSection, DefaultPath,
                      [f \in {NotesFile, NotesTemp} |->
                          IF f = NotesFile THEN DocNotes ELSE <<>>])

-----------------------------------------------------------------------------
(* C20 *)

\* the call of this step is a successful switch_document: the pointer names a
\* candidate that no candidate outscores
SwitchStep ==
    /\ call'.op = "switch_document"
    /\ ~HasError(call'.res)
    /\ path' \in BestNames(DOMAIN Disk, call'.query)

\* the call of this step is a successful create_document with switch_to true: the
\* pointer names the new file
CreateAndSwitchStep ==
    /\ call'.op = "create_document"
    /\ ~HasError(call'.res)
    /\ call'.switch_to
    /\ path' = WithDocx(call'.filename)
    /\ path' \notin DOMAIN Disk

\* the call of this step loads the file the pointer names and saves to it alone
LoadsAndSavesActive ==
    /\ call'.pre = Disk[path]
    /\ DOMAIN Disk' = DOMAIN Disk
    /\ \A f \in DOMAIN Disk : f # path => Disk'[f] = Disk[f]

\* C20: the active-document pointer changes only through a successful
\* switch_document (to the highest-scoring candidate file) or a successful
\* create_document with switch_to true (to the new file): every other tool, a
\* switch_document that finds no candidate, a create_document that fails or has
\* switch_to false, and save_document_as leave the pointer unchanged, and every load
\* and save of a call uses the pointer value current at that call.
C20_PointerChanges ==
    [][/\ (call'.op = "switch_document" /\ ~HasError(call'.res)) => SwitchStep
       /\ (call'.op = "create_document" /\ ~HasError(call'.res) /\ call'.switch_to)
              => CreateAndSwitchStep
       /\ ~(SwitchStep \/ CreateAndSwitchStep) => path' = path
       /\ call'.op \notin {"switch_document", "create_document", "save_document_as"}
              => LoadsAndSavesActive
       /\ call'.op = "save_document_as"
              => Disk' = Put(Disk, WithDocx(call'.filename), Disk[path])]_vars

\* a table inserted into notes.docx after a switch to it: MCP.docx is as it was
C20_Witness ==
    /\ path = NotesFile
    /\ call.op = "insert_table"
    /\ ~HasError(call.res)
    /\ call.pre = DocNotes
    /\ doc # DocNotes
    /\ others[DefaultPath] = DocSection

-----------------------------------------------------------------------------
(* C21 *)

\* the number of paragraphs of d whose text is t
WithText(d, t) == Cardinality({i \in 1..Len(d) : d[i].kind = "p" /\ ParaText(d[i]) = t})

\* both calls have returned success
BothReturned == \A p \in Procs : procs[p].pc = "done" /\ procs[p].res.status = "success"

\* the call that saved first, and the one that saved second
FirstSaver == CHOOSE p \in Procs : procs[p].at = 1

SecondSaver == CHOOSE p \in Procs : procs[p].at = 2

\* the second call loaded before the save of the first
LoadedBeforeSave == procs[SecondSaver].loaded = procs[FirstSaver].loaded

\* C21: when the second of two successful insert_after_text calls loads before the
\* save of the first, the persisted document is the second call's edit of the
\* document both loaded: its paragraph is there and the paragraph of the first call
\* is not (last writer wins); when the calls run one after the other, the paragraph
\* of each call is there.
C21_LastWriterWins ==
    BothReturned =>
        IF LoadedBeforeSave
        THEN /\ doc = insert_after_text(procs[FirstSaver].loaded, procs[SecondSaver].query,
                                        procs[SecondSaver].text, DefaultThreshold,
                                        FALSE, "").doc
             /\ WithText(doc, procs[SecondSaver].text) = 1
             /\ procs[FirstSaver].text # procs[SecondSaver].text
                    => WithText(doc, procs[FirstSaver].text) = 0
        ELSE \A p \in Procs :
                WithText(doc, procs[p].text)
                    = Cardinality({q \in Procs : procs[q].text = procs[p].text})

\* both calls returned success and the paragraph of the first is lost
C21_Witness ==
    /\ BothReturned
    /\ LoadedBeforeSave
    /\ procs[FirstSaver].text # procs[SecondSaver].text
    /\ WithText(doc, procs[FirstSaver].text) = 0
    /\ WithText(doc, procs[SecondSaver].text) = 1

-----------------------------------------------------------------------------
(* C22 *)

\* the trimmed text of doc.paragraphs[k] of the document the call loaded
TrimmedAt(k) == Strip(ParaText(ParagraphAt(call.pre, k)))

\* the trimmed texts of the paragraphs of the loaded document that are not empty
NonEmptyTexts ==
    SelectSeq([k \in 1..Len(Paragraphs(call.pre)) |-> TrimmedAt(k - 1)],
              LAMBDA t : t # <<>>)

\* the entries the last call listed
EntriesOf ==
    IF call.op = "get_paragraphs" THEN call.res.paragraphs ELSE call.res.results

\* the text an entry shows for a trimmed text
ShownAs(t) ==
    IF call.op = "get_paragraphs" THEN Preview(t) ELSE PreviewTo(t, SearchPreviewLimit)

\* the id para-<n> of an integer n
IdOf(n) == ParaPrefix \o (IF n < 0 THEN <<"-">> \o Decimal(-n) ELSE Decimal(n))

\* the last call is a fetch or an update_paragraph whose index is out of bounds
OutOfBounds ==
    /\ call.op \in {"fetch", "update_paragraph"}
    /\ \E n \in -1..10 : /\ call.id = IdOf(n)
                         /\ (n < 0 \/ n >= Len(Paragraphs(call.pre)))

\* an index out of bounds gives "Paragraph para-<id> not found" and changes nothing
OutOfBoundsRefused == OutOfBounds => (call.res = NotFound(call.id) /\ doc = call.pre)

\* C22 as stated: every id para-<index> that get_paragraphs or search returns has
\* for index the position of its paragraph among the non-empty-filtered paragraphs
\* of the document, and fetch or update_paragraph with an index out of bounds
\* returns "Paragraph para-<id> not found" without changing the document.
C22_IndexAmongNonEmpty ==
    /\ call.op \in {"get_paragraphs", "search"}
        => \A j \in 1..Len(EntriesOf) :
              \E k \in 0..(Len(NonEmptyTexts) - 1) :
                  /\ EntriesOf[j].id = IdOf(k)
                  /\ EntriesOf[j].text = ShownAs(NonEmptyTexts[k + 1])
    /\ OutOfBoundsRefused

\* C22 amended: every id para-<index> that get_paragraphs or search returns has for
\* index the position of its paragraph among all the paragraphs of the document
\* (doc.paragraphs, the empty ones counted), only paragraphs whose trimmed text is
\* not empty being listed, and fetch or update_paragraph with an index out of bounds
\* returns "Paragraph para-<id> not found" without changing the document.
C22_IndexAmongAll ==
    /\ call.op \in {"get_paragraphs", "search"}
        => \A j \in 1..Len(EntriesOf) :
              \E k \in 0..(Len(Paragraphs(call.pre)) - 1) :
                  /\ EntriesOf[j].id = IdOf(k)
                  /\ TrimmedAt(k) # <<>>
                  /\ EntriesOf[j].text = ShownAs(TrimmedAt(k))
    /\ OutOfBoundsRefused

\* a listing of a document that starts with an empty paragraph, then an
\* update_paragraph past the end
C22_Witness ==
    /\ OutOfBounds
    /\ call.op = "update_paragraph"
    /\ call.pre = DocBlank
    /\ seen # NoListing
    /\ seen.of = DocBlank
    /\ Len(seen.entries) = 2
    /\ seen.entries[1].id = IdOf(1)

-----------------------------------------------------------------------------
(* C23 *)

\* the table the last call addressed, in the document it loaded
AddressedTable == call.pre[Tables(call.pre)[call.table_index + 1]]

\* table_index, row and column of the last call denote a cell of the addressed row
DenotesCell ==
    /\ call.table_index >= 0 /\ call.table_index < Len(Tables(call.pre))
    /\ call.row >= 0 /\ call.row < Len(AddressedTable.rows)
    /\ call.column >= 0 /\ call.column < Len(AddressedTable.rows[call.row + 1])

\* C23: update_table_cell is bounds-checked per call and per row: on every table,
\* ragged ones included, a table_index, row or column that denotes no cell of the
\* addressed row gives an error result and leaves the tables unchanged; the call
\* never faults on a column that is inside the column count of the table and
\* outside the addressed row.
C23_CheckedPerRow ==
    (call.op = "update_table_cell" /\ ~DenotesCell)
        => (HasError(call.res) /\ doc = call.pre)

-----------------------------------------------------------------------------
(* C29 *)

\* C29: after a successful delete_table on a document with n tables,
\* remaining_tables is n - 1, the number of tables left in the document; after a
\* successful delete_table_row on a table with r rows, remaining_rows is r - 1.
C29_RemainingCounts ==
    /\ (call.op = "delete_table" /\ ~HasError(call.res))
        => /\ call.res.remaining_tables = Len(Tables(call.pre)) - 1
           /\ call.res.remaining_tables = Len(Tables(doc))
    /\ (call.op = "delete_table_row" /\ ~HasError(call.res))
        => call.res.remaining_rows = Len(AddressedTable.rows) - 1

-----------------------------------------------------------------------------
(* C24 *)

\* the level of a heading style: its integer suffix, 1 when the suffix is no integer
LevelByDefault(style) == IF HeadingSuffix(style).ok THEN HeadingSuffix(style).value ELSE 1

\* the block of the heading the last insert_after_heading found
FoundHeading == call.pre[Paragraphs(call.pre)[call.res.heading_idx + 1]]

\* the places of doc between the found heading and the new paragraph
InsideSection ==
    {p \in 1..Len(doc) : /\ PosOf(doc, FoundHeading.id) < p
                         /\ p < PosOf(doc, FreshId(call.pre))}

\* C24: a paragraph whose style name begins with "Heading" and whose suffix is no
\* integer is a heading of level 1 wherever a level is used: as the heading that
\* insert_after_heading finds, as a boundary of its forward scan (no heading of a
\* level at most that of the found heading lies between it and the new paragraph),
\* and as the level get_document_outline reports.
C24_LevelOneByDefault ==
    /\ (call.op = "insert_after_heading" /\ Succeeded /\ call.res.heading_level # 0)
        => /\ call.res.heading_level = LevelByDefault(FoundHeading.style)
           /\ \A p \in InsideSection :
                 ~(/\ doc[p].kind = "p"
                   /\ IsHeadingStyle(doc[p].style)
                   /\ LevelByDefault(doc[p].style) <= call.res.heading_level)
    /\ call.op = "get_document_outline"
        => \A k \in 1..Len(call.res.outline) :
              IsHeadingStyle(call.res.outline[k].style)
                  => call.res.outline[k].level = LevelByDefault(call.res.outline[k].style)

-----------------------------------------------------------------------------
(* C25 *)

\* the last call was a replace_placeholder that found its placeholder
Replaced == call.op = "replace_placeholder" /\ Succeeded

\* the paragraphs of the document before the call with the placeholder in one run
InRunPlaces ==
    {p \in 1..Len(call.pre) : /\ call.pre[p].kind = "p"
                              /\ HasRunWith(call.pre[p].runs, call.placeholder)}

\* the runs of the paragraph at p keep their number and their formatting
SameRunsAt(p) ==
    /\ Len(doc[p].runs) = Len(call.pre[p].runs)
    /\ \A j \in 1..Len(call.pre[p].runs) : doc[p].runs[j].bold = call.pre[p].runs[j].bold

\* C25: when the literal is wholly in some single run of a paragraph, the
\* substitution keeps the number of runs and the formatting of every run, and
\* there is a run that holds the literal such that every other run keeps its text.
C25_InRunOnly ==
    Replaced =>
        \A p \in InRunPlaces :
            /\ SameRunsAt(p)
            /\ doc[p].id = call.pre[p].id /\ doc[p].style = call.pre[p].style
            /\ \E i \in 1..Len(call.pre[p].runs) :
                  /\ Contains(call.placeholder, call.pre[p].runs[i].text)
                  /\ \A j \in 1..Len(call.pre[p].runs) :
                        j # i => doc[p].runs[j].text = call.pre[p].runs[j].text

\* a paragraph of several runs changed in the run that holds the literal, while
\* another run that holds the literal too keeps it
C25_Witness ==
    /\ Replaced
    /\ \E p \in InRunPlaces :
          /\ Len(call.pre[p].runs) > 1
          /\ doc[p] # call.pre[p]
          /\ \E j \in 1..Len(doc[p].runs) :
                /\ Contains(call.placeholder, doc[p].runs[j].text)
                /\ doc[p].runs[j].text = call.pre[p].runs[j].text

-----------------------------------------------------------------------------
(* C26 *)

\* the paragraphs before the call with the placeholder in their text and in no run
AcrossRunsPlaces ==
    {p \in 1..Len(call.pre) : /\ call.pre[p].kind = "p"
                              /\ Contains(call.placeholder, ParaText(call.pre[p]))
                              /\ ~HasRunWith(call.pre[p].runs, call.placeholder)}

\* C26: when the literal occurs in the text of a paragraph but in no single run,
\* the paragraph keeps its number of runs, its first run holds the whole text with
\* every occurrence replaced, every other run is empty, and so the new text of the
\* paragraph is the old text with all occurrences replaced.
C26_Collapsed ==
    Replaced =>
        \A p \in AcrossRunsPlaces :
            /\ Len(doc[p].runs) = Len(call.pre[p].runs)
            /\ doc[p].runs[1].text =
                   StrReplace(ParaText(call.pre[p]), call.placeholder, call.value)
            /\ \A j \in 2..Len(doc[p].runs) : doc[p].runs[j].text = <<>>
            /\ ParaText(doc[p]) =
                   StrReplace(ParaText(call.pre[p]), call.placeholder, call.value)
            /\ call.value # call.placeholder /\ ~Contains(call.placeholder, call.value)
                   => ~Contains(call.placeholder, ParaText(doc[p]))

\* a paragraph of two runs with the literal across them: the text of the second
\* run went to the first
C26_Witness ==
    /\ Replaced
    /\ \E p \in AcrossRunsPlaces :
          /\ Len(call.pre[p].runs) = 2
          /\ call.pre[p].runs[2].text # <<>>
          /\ doc[p].runs[2].text = <<>>
          /\ doc[p].runs[1].text # <<>>

-----------------------------------------------------------------------------
(* C27 *)

\* the last call named a style that the document does not define
StyleUnknown ==
    CASE call.op \in {"insert_after_text", "insert_before_text", "add_paragraph",
                      "format_paragraph"}
             -> call.format.style # "" /\ call.format.style \notin KnownStyles
      [] call.op \in {"create_list", "add_list_item"}
             -> ListStyleName(call.list_type) \notin KnownStyles
      [] OTHER -> FALSE

\* the paragraph the last call works on, or works next to, exists
AnchorFound ==
    CASE call.op \in {"insert_after_text", "insert_before_text", "format_paragraph",
                      "add_list_item"}
             -> find_paragraph_by_text(call.pre, call.query, call.th).found
      [] call.op = "create_list"
             -> /\ call.items # <<>>
                /\ Truthy(call.query)
                     => find_paragraph_by_text(call.pre, call.query.text, call.th).found
      [] OTHER -> TRUE

\* the texts of the paragraphs the last call is to add, in order
TextsToAdd ==
    CASE call.op = "create_list" -> call.items
      [] call.op = "format_paragraph" -> <<>>
      [] OTHER -> <<call.text>>

\* the blocks of doc that the document before the call did not have, in order
RECURSIVE NewBlocksFrom(_)
NewBlocksFrom(p) ==
    IF p > Len(doc) THEN <<>>
    ELSE (IF doc[p].id \in Ids(call.pre) THEN <<>> ELSE <<doc[p]>>) \o NewBlocksFrom(p + 1)

NewBlocks == NewBlocksFrom(1)

\* the document of the same call made with style=None
WithoutStyle ==
    CASE call.op = "insert_after_text"
             -> insert_after_text(call.pre, call.query, call.text, call.th,
                                  call.format.bold, "").doc
      [] call.op = "insert_before_text"
             -> insert_before_text(call.pre, call.query, call.text, call.th,
                                   call.format.bold, "").doc
      [] call.op = "add_paragraph"
             -> add_paragraph_tool(call.pre, call.text, call.format.bold, "").doc
      [] call.op = "format_paragraph"
             -> format_paragraph(call.pre, call.query, call.format.bold, "", call.th).doc
      [] OTHER -> doc

\* C27: for insert_after_text, insert_before_text, add_paragraph, format_paragraph,
\* create_list and add_list_item, a style name the document does not define is
\* swallowed: the result is success, every paragraph the call adds keeps the style
\* it was created with and holds its text, the paragraph format_paragraph works on
\* keeps its style, and the document is the one the same call leaves without a style.
C27_UnknownStyleSwallowed ==
    (StyleUnknown /\ AnchorFound) =>
        /\ Succeeded
        /\ Len(NewBlocks) = Len(TextsToAdd)
        /\ \A k \in 1..Len(NewBlocks) :
              /\ NewBlocks[k].kind = "p"
              /\ NewBlocks[k].style = "Normal"
              /\ ParaText(NewBlocks[k]) = TextsToAdd[k]
        /\ \A p \in 1..Len(call.pre) :
              \E q \in 1..Len(doc) :
                  /\ doc[q].id = call.pre[p].id
                  /\ doc[q].style = call.pre[p].style
                  /\ ParaText(doc[q]) = ParaText(call.pre[p])
        /\ doc = WithoutStyle

\* format_paragraph with an unknown style on a heading: its runs are made bold and
\* its style stays
C27_Witness ==
    /\ call.op = "format_paragraph"
    /\ StyleUnknown
    /\ Succeeded
    /\ \E p \in 1..Len(doc) :
          /\ doc[p].kind = "p"
          /\ doc[p] # call.pre[p]
          /\ IsHeadingStyle(doc[p].style)
          /\ doc[p].style = call.pre[p].style

-----------------------------------------------------------------------------
(* C28 *)

\* what a successful call of each structural tool adds to the number of blocks
CountChange ==
    CASE call.op \in {"insert_after_text", "insert_before_text", "duplicate_paragraph",
                      "split_paragraph"} -> 1
      [] call.op \in {"delete_paragraph", "merge_paragraphs"} -> -1
      [] call.op = "move_paragraph" -> 0
      [] call.op = "create_list" -> Len(call.items)
      [] OTHER -> 0

\* the blocks the call loaded that the persisted document no longer holds
Gone == Ids(call.pre) \ Ids(doc)

\* C28: after every sequence of insert_after_text, insert_before_text,
\* delete_paragraph, move_paragraph, duplicate_paragraph, split_paragraph,
\* merge_paragraphs and create_list calls no block is twice in the persisted
\* sequence and none is left out of it, and the last call changed the number of
\* blocks by +1, +1, -1, 0, +1, +1, -1 and +len(items) when it succeeded and by 0
\* when it failed.
C28_BlockAccounting ==
    /\ NoBlockTwice
    /\ call.op # "none" =>
          /\ Len(doc) = Len(call.pre) + (IF Succeeded THEN CountChange ELSE 0)
          /\ Cardinality(Gone) = (IF Succeeded /\ CountChange = -1 THEN 1 ELSE 0)
          /\ ~Succeeded => doc = call.pre

\* a second call that succeeds on a document whose number of blocks a first call
\* changed: a move that changes the order and not the number
C28_Witness ==
    /\ steps = 2
    /\ call.op = "move_paragraph"
    /\ Succeeded
    /\ Len(call.pre) \notin {Len(d) : d \in BlockDocs}
    /\ doc # call.pre

-----------------------------------------------------------------------------
(* C30 *)

\* the last call was a fetch of an id of the listing the client has
FetchedListed == call.op = "fetch" /\ seen # NoListing /\ call.id \in SeenIds

\* the texts listed under the id of the last call
ListedTexts == {seen.entries[k].text : k \in {j \in 1..Len(seen.entries) :
                                                  seen.entries[j].id = call.id}}

\* the text t as a listing of get_paragraphs or of search shows it
ListedAs(t) == {Preview(Strip(t)), PreviewTo(Strip(t), SearchPreviewLimit)}

\* C30: while the document is the one that search or get_paragraphs listed, a
\* fetch of an id of the listing returns the paragraph whose trimmed text was
\* listed under that id, empty paragraphs between the listed ones or not.
C30_IdsRoundTrip ==
    (FetchedListed /\ doc = seen.of) =>
        /\ ~HasError(call.res)
        /\ call.res.id = call.id
        /\ ListedTexts \subseteq ListedAs(call.res.text)
        /\ call.res.text = ParaText(ParagraphAt(seen.of, call.res.index))

\* the round trip of an id whose number is not the place of its entry in the
\* listing, because an empty paragraph comes before the paragraph
C30_Witness ==
    /\ FetchedListed
    /\ doc = seen.of
    /\ ~HasError(call.res)
    /\ call.res.text # <<>>
    /\ \E k \in 1..Len(seen.entries) :
          /\ seen.entries[k].id = call.id
          /\ call.res.index # k - 1
    /\ \E p \in 1..Len(doc) : doc[p].kind = "p" /\ ParaText(doc[p]) = <<>>

\* after a delete_paragraph of a paragraph before it, an id of the listing denotes
\* another paragraph than the one listed under it
C30_StaleId ==
    /\ FetchedListed
    /\ doc # seen.of
    /\ ~HasError(call.res)
    /\ ListedTexts \cap ListedAs(call.res.text) = {}

====
